---- MODULE Spec2Model ----
(***************************************************************************)
(* Tech Copilot: the troubleshooting cache of the backend (query hash,     *)
(* check_cache, save_to_cache, the troubleshoot endpoint run by several    *)
(* gunicorn workers) and the session handling of the mobile client         *)
(* (secure-store token, API wrapper, AuthProvider, AppContent).            *)
(***************************************************************************)
EXTENDS Integers, Sequences, FiniteSets, TLC

VARIABLES
    \* ---- query hashing (app/utils/hash.py) ----
    hq1, hq2,       \* two troubleshooting queries given to create_query_hash
    hk1, hk2,       \* their hashes, None until computed
    \* ---- backend cache (app/core/cache.py, app/api/v1/troubleshooting.py) ----
    now,            \* database / server clock, in days
    cache,          \* rows of table troubleshooting_cache
    wpc,            \* per worker: position inside the troubleshoot endpoint
    wreq,           \* per worker: the request being served and its locals
    hits,           \* per query hash: cache hits reported so far (history)
    lastSave,       \* per query hash: the last completed save_to_cache (history)
    served,         \* number of requests accepted so far (bounds the run)
    \* ---- mobile client (AuthContext.tsx, services/api.ts, App.tsx) ----
    secureStore,    \* SecureStore item 'accessToken', NoToken when absent
    user,           \* AuthProvider state `user`
    isLoading,      \* AuthProvider state `isLoading`
    navScreen,      \* AppContent state navState.screen
    authPc,         \* position of checkAuth, the start-up session check
    loginPc,        \* position of a login started on the login screen
    logoutPc,       \* position of a logout started on the home screen
    pending,        \* a wrapper call that has read the token and not yet sent
    lastRequest,    \* the request the API wrapper sent last
    session,        \* what has happened to the session so far (history)
    dbUsers,        \* rows of table users
    apiNow,         \* the backend's clock
    reg,            \* per worker: the registration being handled
    authLast,       \* the last request a route answered
    dbManuals,      \* rows of table equipment_manuals, counted per manual_type
    storedFiles,    \* files in the manuals storage directory
    fileRecords,    \* per stored file: the manual records whose file_path names it
    uploads,        \* uploads handled so far (bounds the run)
    manLast,        \* the last answer of a manuals route
    tshoot,         \* TroubleshootScreen: its state and the query submitted last
    mscreen,        \* ManualsScreen: its state, requests in flight, the upload sent last
    lib,            \* ManualLibraryScreen: its state, its timers, loads in flight
    wsearch,        \* ManualsScreen: the web search form, its request and its alert
    rag,            \* RAGQueryScreen: its state and the query sent last
    loginScr,       \* LoginScreen: its state and the requests it sent
    libServer,      \* indexing_status of the manuals the server lists now
    libDelete       \* ManualLibraryScreen: the delete dialog and the DELETE requests

hashVars  == <<hq1, hq2, hk1, hk2>>
cacheVars == <<now, cache, wpc, wreq, hits, lastSave, served>>
appVars == <<secureStore, user, isLoading, navScreen, authPc, loginPc, logoutPc,
             pending, lastRequest, session>>
authVars == <<dbUsers, apiNow, reg, authLast>>
manualVars == <<dbManuals, storedFiles, fileRecords, uploads, manLast>>
screenVars == <<tshoot, mscreen, lib>>
searchVars == <<wsearch>>
clientVars == <<rag, loginScr>>
serverVars == <<libServer, libDelete>>
vars == <<hashVars, cacheVars, appVars, authVars, manualVars, screenVars, searchVars, clientVars, serverVars>>

\* what the steps of one part of the system leave alone
notHashVars == <<cacheVars, appVars, authVars, manualVars, screenVars, searchVars, clientVars, serverVars>>
notCacheVars == <<hashVars, appVars, authVars, manualVars, screenVars, searchVars, clientVars, serverVars>>
notAppVars == <<hashVars, cacheVars, authVars, manualVars, screenVars, searchVars, clientVars, serverVars>>
notAuthVars == <<hashVars, cacheVars, appVars, manualVars, screenVars, searchVars, clientVars, serverVars>>
notManualVars == <<hashVars, cacheVars, appVars, authVars, screenVars, searchVars, clientVars, serverVars>>
notScreenVars == <<hashVars, cacheVars, appVars, authVars, manualVars, searchVars, clientVars, serverVars>>
notSearchVars == <<hashVars, cacheVars, appVars, authVars, manualVars, screenVars, clientVars, serverVars>>
notClientVars == <<hashVars, cacheVars, appVars, authVars, manualVars, screenVars, searchVars, serverVars>>
notServerVars == <<hashVars, cacheVars, appVars, authVars, manualVars, screenVars, searchVars, clientVars>>

\* Python's None where a string is expected (a value no typed string equals)
None == <<"None">>
\* "nothing yet" for a value that is otherwise an atom
Nothing == "nothing"

-----------------------------------------------------------------------------
(* Bounds of the model *)

MaxLen == 2          \* longest generated manufacturer string
DayStep == 15        \* days the clock advances per Tick
MaxTime == 30        \* last day the clock reaches
MaxRequests == 3     \* requests accepted in one run
MaxApiTime == 4      \* last tick of the backend's clock
MaxUploads == 2      \* uploads handled in one run
MaxScreenLoads == 3  \* getManuals requests started on the Manuals screen
MaxLibraryLoads == 2 \* loadManuals calls in flight on the library screen
MaxRagLoads == 2     \* loadManuals calls in flight on the RAG query screen
MaxLoginPresses == 3 \* presses of the Login button in one run
MaxDeleteDialogs == 2 \* delete dialogs opened in one run
MaxWebSearches == 3  \* presses of the web search button in one run
SeededManuals == 100 \* service manuals in a library that is already in use

(* Program constants *)

CacheTtlDays == 30   \* expires_at DEFAULT NOW() + INTERVAL '30 days'
InitialTimesServed == 1  \* times_served INTEGER DEFAULT 1
UploadLimitMb == 100 \* if file_size > 100 * 1024 * 1024, in MB
DefaultLimit == 50   \* limit: int = 50
MaxLimit == 100      \* limit (optional): Results per page (default 50, max 100)

-----------------------------------------------------------------------------
(* Strings are sequences of one-character strings. *)

Alphabet == {"a", "A", " "}

RECURSIVE StringsUpTo(_)
StringsUpTo(n) ==
    IF n = 0 THEN {<<>>}
    ELSE LET shorter == StringsUpTo(n - 1)
         IN shorter \cup {Append(s, c) : s \in {t \in shorter : Len(t) = n - 1}, c \in Alphabet}

LowerChar(c) == CASE c = "A" -> "a" [] c = "B" -> "b" [] OTHER -> c
UpperChar(c) == CASE c = "a" -> "A" [] c = "b" -> "B" [] OTHER -> c

\* str.lower()
lower(s) == [i \in 1..Len(s) |-> LowerChar(s[i])]
\* str.upper()
upper(s) == [i \in 1..Len(s) |-> UpperChar(s[i])]

IsSpace(c) == c = " "

RECURSIVE lstrip(_)
lstrip(s) == IF s # <<>> /\ IsSpace(Head(s)) THEN lstrip(Tail(s)) ELSE s

RECURSIVE rstrip(_)
rstrip(s) ==
    IF s # <<>> /\ IsSpace(s[Len(s)]) THEN rstrip(SubSeq(s, 1, Len(s) - 1)) ELSE s

\* str.strip()
strip(s) == rstrip(lstrip(s))

\* Python truthiness of an Optional[str]: None and "" are falsy
Truthy(s) == s # None /\ s # <<>>

\* json.dumps(data, sort_keys=True): the key/value pairs in key order
json_dumps(data) ==
    << <<"error_code", data.error_code>>,
       <<"manufacturer", data.manufacturer>>,
       <<"model", data.model>>,
       <<"symptom", data.symptom>> >>

\* hashlib.sha256(...).hexdigest(), taken to be collision free
sha256(text) == <<"sha256", text>>

\* a slip: the error code is hashed as typed, without upper()
create_query_hash_keeps_case(manufacturer, model, error_code, symptom) ==
    sha256(json_dumps(
        [manufacturer |-> strip(lower(manufacturer)),
         model        |-> strip(lower(model)),
         error_code   |-> IF Truthy(error_code) THEN strip(error_code) ELSE <<>>,
         symptom      |-> IF Truthy(symptom) THEN strip(lower(symptom)) ELSE <<>>]))

create_query_hash(manufacturer, model, error_code, symptom) ==
    sha256(json_dumps(
        [manufacturer |-> strip(lower(manufacturer)),
         model        |-> strip(lower(model)),
         error_code   |-> IF Truthy(error_code) THEN strip(upper(error_code)) ELSE <<>>,
         symptom      |-> IF Truthy(symptom) THEN strip(lower(symptom)) ELSE <<>>]))

\* `error_code or ""` at the call sites in check_cache and save_to_cache
OrEmpty(s) == IF Truthy(s) THEN s ELSE <<>>

QueryHash(q) ==
    create_query_hash(q.manufacturer, q.model, OrEmpty(q.error_code), OrEmpty(q.symptom))

-----------------------------------------------------------------------------
(* Queries given to the hash function *)

NoQuery == [manufacturer |-> <<>>, model |-> <<>>, error_code |-> None, symptom |-> None]

HashManufacturers == StringsUpTo(MaxLen)
HashModels == {<<"a">>, <<"A", " ">>}
HashErrorCodes == {None, <<>>, <<"a">>, <<" ", "A">>}
HashSymptoms == {None, <<"a">>}

HashQueries ==
    [manufacturer : HashManufacturers, model : HashModels,
     error_code : HashErrorCodes, symptom : HashSymptoms]

ComputeHashes ==
    /\ hk1 = None
    /\ hk1' = QueryHash(hq1)
    /\ hk2' = QueryHash(hq2)
    /\ UNCHANGED <<hq1, hq2>>
    /\ UNCHANGED notHashVars

-----------------------------------------------------------------------------
(* The troubleshooting cache and the troubleshoot endpoint.                *)
(* The endpoint is served by several gunicorn workers (-w 4); each call of *)
(* the ORM is one step: a SELECT, or the flush and COMMIT of what the      *)
(* session changed.                                                        *)

Workers == {"w1", "w2"}

\* the same question typed twice, and another question
QueryA  == [manufacturer |-> <<"A">>, model |-> <<"a">>,
            error_code |-> <<"a">>, symptom |-> None]
QueryA2 == [manufacturer |-> <<"a", " ">>, model |-> <<"A">>,
            error_code |-> <<" ", "A">>, symptom |-> <<>>]
QueryB  == [manufacturer |-> <<"A">>, model |-> <<"a">>,
            error_code |-> None, symptom |-> <<"a">>]
CacheQueries == {QueryA, QueryA2, QueryB}
CacheHashes == {QueryHash(q) : q \in CacheQueries}

\* what the AI call can give back: a parsed answer, or the error object of
\* its except branch
AIAnswers == {"steps_v1", "steps_v2"}
ErrorObject == "error_object"

NoRow == [query_hash |-> <<>>, response_data |-> Nothing,
          created_at |-> 0 - 1, expires_at |-> 0 - 1, times_served |-> 0]
NoSave == [response |-> Nothing, at |-> 0 - 1]

\* the locals of one run of the endpoint; checkedAt, rowStored, rowLive and
\* expected record what the table held when check_cache looked (history)
IdleRequest ==
    [q |-> NoQuery, checkedAt |-> 0 - 1, rowStored |-> FALSE, rowLive |-> FALSE,
     expected |-> Nothing, selected |-> NoRow, found |-> FALSE, calledAI |-> FALSE,
     response |-> Nothing, existing |-> FALSE, saved |-> FALSE, returned |-> Nothing]

\* a row as INSERT makes it: the column defaults of troubleshooting_cache
NewRow(query_hash, response, at) ==
    [query_hash |-> query_hash, response_data |-> response,
     created_at |-> at, expires_at |-> at + CacheTtlDays,
     times_served |-> InitialTimesServed]

\* a slip: the lookup forgets the expires_at filter
check_cache_query_ignores_expiry(table, query_hash, at) ==
    {r \in table : r.query_hash = query_hash}

\* check_cache: filter(query_hash == ..., expires_at > utcnow())
check_cache_query(table, query_hash, at) ==
    {r \in table : r.query_hash = query_hash /\ r.expires_at > at}

\* a slip: save_to_cache looks the row up by nothing and never finds one
save_to_cache_query_finds_nothing(table, query_hash) == {}

\* save_to_cache: filter(query_hash == ...)
save_to_cache_query(table, query_hash) ==
    {r \in table : r.query_hash = query_hash}

\* the dict check_cache returns
check_cache_result(row) ==
    IF row = NoRow
    THEN [found |-> FALSE, response |-> Nothing, times_served |-> 0]
    ELSE [found |-> TRUE, response |-> row.response_data, times_served |-> row.times_served]

\* check_cache(db, request) as the endpoint calls it: the cached response,
\* or nothing on a miss
check_cache_for_request(result) ==
    IF result.found THEN result.response ELSE Nothing

\* a slip: the endpoint goes on to the AI call whatever the cache said
cache_answers_never(cached) == FALSE

\* `if cached:` in the endpoint
cache_answers(cached) == cached # Nothing

\* time passes
Tick ==
    /\ now + DayStep <= MaxTime
    /\ now' = now + DayStep
    /\ UNCHANGED <<cache, wpc, wreq, hits, lastSave, served>>
    /\ UNCHANGED notCacheVars

\* POST /troubleshoot reaches a worker
AcceptRequest(w, q) ==
    /\ wpc[w] = "idle"
    /\ served < MaxRequests
    /\ served' = served + 1
    /\ wreq' = [wreq EXCEPT ![w] = [IdleRequest EXCEPT !.q = q]]
    /\ wpc' = [wpc EXCEPT ![w] = "check_select"]
    /\ UNCHANGED <<now, cache, hits, lastSave>>
    /\ UNCHANGED notCacheVars

\* check_cache, the SELECT ... .first(); on a miss it returns at once and the
\* endpoint goes on
CheckCacheSelect(w) ==
    /\ wpc[w] = "check_select"
    /\ LET h == QueryHash(wreq[w].q)
           rows == check_cache_query(cache, h, now)
           history == [wreq[w] EXCEPT
                          !.checkedAt = now,
                          !.rowStored = \E r \in cache : r.query_hash = h,
                          !.rowLive = \E r \in cache : r.query_hash = h /\ now < r.expires_at,
                          !.expected = IF lastSave[h] # NoSave
                                          /\ now < lastSave[h].at + CacheTtlDays
                                       THEN lastSave[h].response ELSE Nothing]
       IN IF rows = {}
          THEN LET cached == check_cache_for_request(check_cache_result(NoRow))
               IN /\ wreq' = [wreq EXCEPT ![w] = history]
                  /\ wpc' = [wpc EXCEPT ![w] =
                                 IF cache_answers(cached) THEN "done" ELSE "call_ai"]
          ELSE \E row \in rows :
                  /\ wreq' = [wreq EXCEPT ![w] =
                                  [history EXCEPT !.selected = row, !.found = TRUE]]
                  /\ wpc' = [wpc EXCEPT ![w] = "check_commit"]
    /\ UNCHANGED <<now, cache, hits, lastSave, served>>
    /\ UNCHANGED notCacheVars

\* check_cache on a hit: times_served += 1 on the loaded object, commit (an
\* UPDATE of that row with the value computed in Python), then the result is
\* built from the refreshed row; `if cached: return cached`
CheckCacheCommit(w) ==
    /\ wpc[w] = "check_commit"
    /\ LET loaded == wreq[w].selected
           h == loaded.query_hash
           current == CHOOSE r \in cache : r.query_hash = h
           updated == [current EXCEPT !.times_served = loaded.times_served + 1]
           cached == check_cache_for_request(check_cache_result(updated))
       IN /\ cache' = (cache \ {current}) \cup {updated}
          /\ hits' = [hits EXCEPT ![h] = @ + 1]
          /\ wreq' = [wreq EXCEPT ![w] =
                          [@ EXCEPT !.returned = IF cache_answers(cached) THEN cached ELSE Nothing]]
          /\ wpc' = [wpc EXCEPT ![w] =
                         IF cache_answers(cached) THEN "done" ELSE "call_ai"]
    /\ UNCHANGED <<now, lastSave, served>>
    /\ UNCHANGED notCacheVars

\* troubleshoot_with_claude returns the parsed answer
AICallSucceeds(w) ==
    /\ wpc[w] = "call_ai"
    /\ \E answer \in AIAnswers :
          wreq' = [wreq EXCEPT ![w] = [@ EXCEPT !.calledAI = TRUE, !.response = answer]]
    /\ wpc' = [wpc EXCEPT ![w] = "save_select"]
    /\ UNCHANGED <<now, cache, hits, lastSave, served>>
    /\ UNCHANGED notCacheVars

\* troubleshoot_with_claude catches the exception and returns the error object
AICallFails(w) ==
    /\ wpc[w] = "call_ai"
    /\ wreq' = [wreq EXCEPT ![w] = [@ EXCEPT !.calledAI = TRUE, !.response = ErrorObject]]
    /\ wpc' = [wpc EXCEPT ![w] = "save_select"]
    /\ UNCHANGED <<now, cache, hits, lastSave, served>>
    /\ UNCHANGED notCacheVars

\* save_to_cache, the SELECT of an existing row
SaveToCacheSelect(w) ==
    /\ wpc[w] = "save_select"
    /\ LET rows == save_to_cache_query(cache, QueryHash(wreq[w].q))
       IN IF rows = {}
          THEN wreq' = [wreq EXCEPT ![w] = [@ EXCEPT !.existing = FALSE]]
          ELSE wreq' = [wreq EXCEPT ![w] = [@ EXCEPT !.existing = TRUE]]
    /\ wpc' = [wpc EXCEPT ![w] = "save_commit"]
    /\ UNCHANGED <<now, cache, hits, lastSave, served>>
    /\ UNCHANGED notCacheVars

\* save_to_cache, existing row: response_data (and the metrics) overwritten,
\* commit; the endpoint returns the response
SaveToCacheUpdate(w) ==
    /\ wpc[w] = "save_commit"
    /\ wreq[w].existing
    /\ LET h == QueryHash(wreq[w].q)
           current == CHOOSE r \in cache : r.query_hash = h
           updated == [current EXCEPT !.response_data = wreq[w].response]
       IN /\ cache' = (cache \ {current}) \cup {updated}
          /\ lastSave' = [lastSave EXCEPT ![h] = [response |-> wreq[w].response, at |-> now]]
    /\ wreq' = [wreq EXCEPT ![w] = [@ EXCEPT !.saved = TRUE, !.returned = wreq[w].response]]
    /\ wpc' = [wpc EXCEPT ![w] = "done"]
    /\ UNCHANGED <<now, hits, served>>
    /\ UNCHANGED notCacheVars

\* save_to_cache, no existing row: db.add(cache_entry), commit
SaveToCacheInsert(w) ==
    /\ wpc[w] = "save_commit"
    /\ ~wreq[w].existing
    /\ LET h == QueryHash(wreq[w].q)
       IN /\ \A r \in cache : r.query_hash # h
          /\ cache' = cache \cup {NewRow(h, wreq[w].response, now)}
          /\ lastSave' = [lastSave EXCEPT ![h] = [response |-> wreq[w].response, at |-> now]]
    /\ wreq' = [wreq EXCEPT ![w] = [@ EXCEPT !.saved = TRUE, !.returned = wreq[w].response]]
    /\ wpc' = [wpc EXCEPT ![w] = "done"]
    /\ UNCHANGED <<now, hits, served>>
    /\ UNCHANGED notCacheVars

\* save_to_cache, no existing row seen but another worker has inserted one
\* since: query_hash is UNIQUE, the commit raises and the request ends in a 500
SaveToCacheInsertConflict(w) ==
    /\ wpc[w] = "save_commit"
    /\ ~wreq[w].existing
    /\ \E r \in cache : r.query_hash = QueryHash(wreq[w].q)
    /\ wpc' = [wpc EXCEPT ![w] = "failed"]
    /\ UNCHANGED <<now, cache, wreq, hits, lastSave, served>>
    /\ UNCHANGED notCacheVars

\* the response (or the 500) has gone out; the worker takes the next request
FinishRequest(w) ==
    /\ wpc[w] \in {"done", "failed"}
    /\ wpc' = [wpc EXCEPT ![w] = "idle"]
    /\ wreq' = [wreq EXCEPT ![w] = IdleRequest]
    /\ UNCHANGED <<now, cache, hits, lastSave, served>>
    /\ UNCHANGED notCacheVars

CacheNext ==
    \/ Tick
    \/ \E w \in Workers : \E q \in CacheQueries : AcceptRequest(w, q)
    \/ \E w \in Workers : CheckCacheSelect(w)
    \/ \E w \in Workers : CheckCacheCommit(w)
    \/ \E w \in Workers : AICallSucceeds(w)
    \/ \E w \in Workers : AICallFails(w)
    \/ \E w \in Workers : SaveToCacheSelect(w)
    \/ \E w \in Workers : SaveToCacheUpdate(w)
    \/ \E w \in Workers : SaveToCacheInsert(w)
    \/ \E w \in Workers : SaveToCacheInsertConflict(w)
    \/ \E w \in Workers : FinishRequest(w)

-----------------------------------------------------------------------------
(* The mobile client: secure storage, the API wrapper, AuthProvider and    *)
(* AppContent. Each await is a step boundary.                              *)

NoToken == "null"
Tokens == {"tok1", "tok2"}
NoUser == "null"
Users == {"kris"}

Screens == {"home", "troubleshoot", "manuals", "manual-viewer", "equipment", "history"}
\* the ids of HomeScreen's menuItems
MenuTargets == {"troubleshoot", "manuals", "equipment", "history"}

\* JavaScript truthiness of `token`: null and '' are falsy
TokenTruthy(token) == token # NoToken /\ token # ""

NoHeader == <<>>
\* `Bearer ${token}`
Bearer(token) == <<"Bearer", token>>

\* a slip: the upload is sent without the Authorization header
uploadManual_headers_without_auth(token) ==
    [ContentType |-> NoHeader, Authorization |-> NoHeader]

\* fetchWithAuth: Content-Type plus, if (token), Authorization
fetchWithAuth_headers(token) ==
    [ContentType |-> <<"application/json">>,
     Authorization |-> IF TokenTruthy(token) THEN Bearer(token) ELSE NoHeader]

\* the axios instance's headers after the request interceptor
axios_interceptor_headers(token) ==
    [ContentType |-> <<"application/json">>,
     Authorization |-> IF TokenTruthy(token) THEN Bearer(token) ELSE NoHeader]

\* uploadManual: headers = {}; if (token) headers.Authorization = ...
uploadManual_headers(token) ==
    [ContentType |-> NoHeader,
     Authorization |-> IF TokenTruthy(token) THEN Bearer(token) ELSE NoHeader]

HeadersVia(via, token) ==
    CASE via = "fetchWithAuth" -> fetchWithAuth_headers(token)
      [] via = "axios" -> axios_interceptor_headers(token)
      [] via = "uploadManual" -> uploadManual_headers(token)

NoPending == [via |-> "none", endpoint |-> "none", token |-> NoToken]

NoRequest ==
    [via |-> "none", endpoint |-> "none", token |-> NoToken,
     headers |-> [ContentType |-> NoHeader, Authorization |-> NoHeader],
     afterLogout |-> FALSE]

\* const token = await getAuthToken() / await SecureStore.getItemAsync(...):
\* the wrapper has the token it read and resumes later to build the request
ReadToken(via, endpoint) ==
    /\ pending = NoPending
    /\ pending' = [via |-> via, endpoint |-> endpoint, token |-> secureStore]

\* isAuthenticated: !!user
isAuthenticated == user # NoUser

\* a slip: the navigation switch is rendered without asking isAuthenticated
AppContent_without_login_gate(loading, authenticated, screen) ==
    IF loading THEN "loading"
    ELSE CASE screen = "troubleshoot" -> "troubleshoot"
           [] screen = "manuals" -> "manuals"
           [] screen = "manual-viewer" -> "manual-viewer"
           [] OTHER -> "home"

\* AppContent: what is rendered
AppContent(loading, authenticated, screen) ==
    IF loading THEN "loading"
    ELSE IF ~authenticated THEN "login"
    ELSE CASE screen = "troubleshoot" -> "troubleshoot"
           [] screen = "manuals" -> "manuals"
           [] screen = "manual-viewer" -> "manual-viewer"
           [] OTHER -> "home"

Rendered == AppContent(isLoading, isAuthenticated, navScreen)

NewSession ==
    [startToken |-> NoToken, me |-> "none", loggedIn |-> FALSE,
     loggedOut |-> FALSE, everLoggedOut |-> FALSE]

\* checkAuth: token = await SecureStore.getItemAsync('accessToken')
CheckAuthGetToken ==
    /\ authPc = "get_token"
    /\ authPc' = IF TokenTruthy(secureStore) THEN "call_me" ELSE "finally"
    /\ session' = [session EXCEPT !.startToken = secureStore]
    /\ UNCHANGED <<secureStore, user, isLoading, navScreen, loginPc, logoutPc, pending, lastRequest>>
    /\ UNCHANGED notAppVars

\* checkAuth: getCurrentUser() -> fetchWithAuth('/auth/me')
CheckAuthCallMe ==
    /\ authPc = "call_me"
    /\ ReadToken("fetchWithAuth", "/auth/me")
    /\ authPc' = "send_me"
    /\ UNCHANGED <<secureStore, user, isLoading, navScreen, loginPc, logoutPc, lastRequest,
                   session>>
    /\ UNCHANGED notAppVars

\* checkAuth: the request succeeds, setUser(response.data)
CheckAuthMeSucceeds ==
    /\ authPc = "await_me"
    /\ \E u \in Users : user' = u
    /\ authPc' = "finally"
    /\ session' = [session EXCEPT !.me = "ok"]
    /\ UNCHANGED <<secureStore, isLoading, navScreen, loginPc, logoutPc, pending, lastRequest>>
    /\ UNCHANGED notAppVars

\* checkAuth: the request fails (no network, 401, ...): handleResponse throws
CheckAuthMeFails ==
    /\ authPc = "await_me"
    /\ authPc' = "catch"
    /\ session' = [session EXCEPT !.me = "failed"]
    /\ UNCHANGED <<secureStore, user, isLoading, navScreen, loginPc, logoutPc, pending, lastRequest>>
    /\ UNCHANGED notAppVars

\* a slip: the catch branch leaves the token in place
checkAuth_catch_keeps_token(token) == token

\* checkAuth, catch: await SecureStore.deleteItemAsync('accessToken')
checkAuth_catch(token) == NoToken

CheckAuthCatch ==
    /\ authPc = "catch"
    /\ secureStore' = checkAuth_catch(secureStore)
    /\ authPc' = "finally"
    /\ UNCHANGED <<user, isLoading, navScreen, loginPc, logoutPc, pending, lastRequest, session>>
    /\ UNCHANGED notAppVars

\* checkAuth, finally: setIsLoading(false)
CheckAuthFinally ==
    /\ authPc = "finally"
    /\ isLoading' = FALSE
    /\ authPc' = "done"
    /\ UNCHANGED <<secureStore, user, navScreen, loginPc, logoutPc, pending, lastRequest, session>>
    /\ UNCHANGED notAppVars

\* LoginScreen.handleLogin -> AuthContext.login -> api.login: POST /auth/login
LoginPress ==
    /\ Rendered = "login"
    /\ loginPc = "idle"
    /\ ReadToken("fetchWithAuth", "/auth/login")
    /\ loginPc' = "send_login"
    /\ UNCHANGED <<secureStore, user, isLoading, navScreen, authPc, logoutPc, lastRequest,
                   session>>
    /\ UNCHANGED notAppVars

\* api.login: the server accepts; await SecureStore.setItemAsync(access_token)
LoginAccepted ==
    /\ loginPc = "await_login"
    /\ \E t \in Tokens : secureStore' = t
    /\ loginPc' = "set_user"
    /\ session' = [session EXCEPT !.loggedIn = TRUE, !.loggedOut = FALSE]
    /\ UNCHANGED <<user, isLoading, navScreen, authPc, logoutPc, pending, lastRequest>>
    /\ UNCHANGED notAppVars

\* api.login: the server rejects, handleResponse throws, handleLogin alerts
LoginRejected ==
    /\ loginPc = "await_login"
    /\ loginPc' = "idle"
    /\ UNCHANGED <<secureStore, user, isLoading, navScreen, authPc, logoutPc, pending, lastRequest,
                   session>>
    /\ UNCHANGED notAppVars

\* AuthContext.login: setUser(response.user)
LoginSetUser ==
    /\ loginPc = "set_user"
    /\ \E u \in Users : user' = u
    /\ loginPc' = "on_success"
    /\ UNCHANGED <<secureStore, isLoading, navScreen, authPc, logoutPc, pending, lastRequest, session>>
    /\ UNCHANGED notAppVars

\* handleLogin: onLoginSuccess() -> navigate('home')
LoginOnSuccess ==
    /\ loginPc = "on_success"
    /\ navScreen' = "home"
    /\ loginPc' = "idle"
    /\ UNCHANGED <<secureStore, user, isLoading, authPc, logoutPc, pending, lastRequest, session>>
    /\ UNCHANGED notAppVars

\* HomeScreen: the log-out button, onPress={logout}; one logout at a time
LogoutPress ==
    /\ Rendered = "home"
    /\ logoutPc = "idle"
    /\ logoutPc' = "delete"
    /\ UNCHANGED <<secureStore, user, isLoading, navScreen, authPc, loginPc, pending, lastRequest,
                   session>>
    /\ UNCHANGED notAppVars

\* api.logout: await SecureStore.deleteItemAsync('accessToken')
api_logout(token) == NoToken

LogoutDelete ==
    /\ logoutPc = "delete"
    /\ secureStore' = api_logout(secureStore)
    /\ logoutPc' = "set_user"
    /\ UNCHANGED <<user, isLoading, navScreen, authPc, loginPc, pending, lastRequest, session>>
    /\ UNCHANGED notAppVars

\* AuthContext.logout: setUser(null); logout is complete
LogoutSetUser ==
    /\ logoutPc = "set_user"
    /\ user' = NoUser
    /\ logoutPc' = "idle"
    /\ session' = [session EXCEPT !.loggedOut = TRUE, !.everLoggedOut = TRUE]
    /\ UNCHANGED <<secureStore, isLoading, navScreen, authPc, loginPc, pending, lastRequest>>
    /\ UNCHANGED notAppVars

\* HomeScreen: onNavigate(item.id)
NavigateFromHome ==
    /\ Rendered = "home"
    /\ \E target \in MenuTargets : navScreen' = target
    /\ UNCHANGED <<secureStore, user, isLoading, authPc, loginPc, logoutPc, pending, lastRequest,
                   session>>
    /\ UNCHANGED notAppVars

\* a slip: every Back leads to Home
onBack_always_home(rendered) == "home"

\* the onBack prop AppContent gives the rendered screen
onBack(rendered) == IF rendered = "manual-viewer" THEN "manuals" ELSE "home"

\* onBack of the rendered screen
NavigateBack ==
    /\ Rendered \in {"troubleshoot", "manuals", "manual-viewer"}
    /\ navScreen' = onBack(Rendered)
    /\ UNCHANGED <<secureStore, user, isLoading, authPc, loginPc, logoutPc, pending, lastRequest,
                   session>>
    /\ UNCHANGED notAppVars

\* ManualsScreen: onViewManual(id)
NavigateToViewer ==
    /\ Rendered = "manuals"
    /\ navScreen' = "manual-viewer"
    /\ UNCHANGED <<secureStore, user, isLoading, authPc, loginPc, logoutPc, pending, lastRequest,
                   session>>
    /\ UNCHANGED notAppVars

\* a screen calls the API: troubleshoot, getManuals, getManual through
\* fetchWithAuth or the axios instance, uploadManual on the manuals screen
ScreenRequest(via) ==
    /\ \/ /\ via \in {"fetchWithAuth", "axios"}
          /\ Rendered \in {"troubleshoot", "manuals", "manual-viewer"}
       \/ /\ via = "uploadManual"
          /\ Rendered = "manuals"
    /\ ReadToken(via, CASE via = "uploadManual" -> "/manuals/upload"
                        [] Rendered = "troubleshoot" -> "/troubleshoot"
                        [] OTHER -> "/manuals")
    /\ UNCHANGED <<secureStore, user, isLoading, navScreen, authPc, loginPc, logoutPc,
                   lastRequest, session>>
    /\ UNCHANGED notAppVars

\* the wrapper resumes with the token it read, builds the headers and calls
\* fetch (the axios instance sends the config the interceptor returned)
SendRequest ==
    /\ pending # NoPending
    /\ lastRequest' = [via |-> pending.via, endpoint |-> pending.endpoint,
                       token |-> pending.token,
                       headers |-> HeadersVia(pending.via, pending.token),
                       afterLogout |-> session.loggedOut]
    /\ pending' = NoPending
    /\ authPc' = IF pending.endpoint = "/auth/me" THEN "await_me" ELSE authPc
    /\ loginPc' = IF pending.endpoint = "/auth/login" THEN "await_login" ELSE loginPc
    /\ UNCHANGED <<secureStore, user, isLoading, navScreen, logoutPc, session>>
    /\ UNCHANGED notAppVars

AppNext ==
    \/ CheckAuthGetToken
    \/ CheckAuthCallMe
    \/ CheckAuthMeSucceeds
    \/ CheckAuthMeFails
    \/ CheckAuthCatch
    \/ CheckAuthFinally
    \/ LoginPress
    \/ LoginAccepted
    \/ LoginRejected
    \/ LoginSetUser
    \/ LoginOnSuccess
    \/ LogoutPress
    \/ LogoutDelete
    \/ LogoutSetUser
    \/ NavigateFromHome
    \/ NavigateBack
    \/ NavigateToViewer
    \/ \E via \in {"fetchWithAuth", "axios", "uploadManual"} : ScreenRequest(via)
    \/ SendRequest

-----------------------------------------------------------------------------
(* The backend's users: get_current_user in front of the protected         *)
(* endpoints (app/api/deps.py) and POST /auth/register (app/api/v1/auth.py) *)
(* served by several workers over one users table.                         *)

\* routes declared with current_user = Depends(get_current_user); the last
\* field says whether the handler writes to the database or to storage
ProtectedEndpoints ==
    {<<"POST", "/manuals/upload", TRUE>>, <<"GET", "/manuals", FALSE>>,
     <<"GET", "/manuals/{manual_id}", TRUE>>, <<"POST", "/manuals/search", FALSE>>,
     <<"POST", "/troubleshoot", TRUE>>}

\* routes declared without it
PublicEndpoints ==
    {<<"POST", "/auth/register", TRUE>>, <<"POST", "/auth/login", TRUE>>,
     <<"GET", "/health", FALSE>>, <<"GET", "/docs", FALSE>>}

NoCredentials == [sub |-> "none", exp |-> 0, signature |-> "none"]

\* what a caller can put after "Bearer": tokens signed with JWT_SECRET_KEY or
\* not, naming a user, a name that may not exist, or carrying no sub at all;
\* expiry times fall between the clock's ticks
BearerTokens ==
    [sub : {"kris", "sam", "nosub"}, exp : {1, 3}, signature : {"server", "forged"}]

\* jwt.decode: the payload, or None on a bad signature or an expired token
decode_token(token, at) ==
    IF token.signature = "server" /\ token.exp > at THEN token ELSE NoCredentials

\* a slip: the is_active check is left out
get_current_user_skips_is_active(credentials, table, at) ==
    LET payload == decode_token(credentials, at)
    IN IF credentials = NoCredentials THEN 403
       ELSE IF payload = NoCredentials THEN 401
       ELSE IF payload.sub = "nosub" THEN 401
       ELSE IF ~\E u \in table : u.username = payload.sub THEN 401
       ELSE 200

\* get_current_user: 200 stands for "returns the user", otherwise the status
\* of the HTTPException; HTTPBearer itself refuses a request without a
\* bearer header
get_current_user(credentials, table, at) ==
    LET payload == decode_token(credentials, at)
    IN IF credentials = NoCredentials THEN 403
       ELSE IF payload = NoCredentials THEN 401
       ELSE IF payload.sub = "nosub" THEN 401
       ELSE IF ~\E u \in table : u.username = payload.sub THEN 401
       ELSE IF ~(CHOOSE u \in table : u.username = payload.sub).is_active THEN 403
       ELSE 200

NoCall ==
    [endpoint |-> <<"none", "none", FALSE>>, credentials |-> NoCredentials,
     status |-> 0, served |-> FALSE, wrote |-> FALSE, valid |-> FALSE]

\* datetime.utcnow() moves on
ApiTick ==
    /\ apiNow + 2 <= MaxApiTime
    /\ apiNow' = apiNow + 2
    /\ UNCHANGED <<dbUsers, reg, authLast>>
    /\ UNCHANGED notAuthVars

\* a request reaches a route: its dependencies run first, then the handler;
\* `valid` records whether the request carried a server-signed, unexpired
\* token naming an existing active user
CallEndpoint(endpoint, credentials) ==
    LET status == IF endpoint \in ProtectedEndpoints
                  THEN get_current_user(credentials, dbUsers, apiNow)
                  ELSE 200
    IN /\ authLast' = [endpoint |-> endpoint, credentials |-> credentials,
                       status |-> status, served |-> status = 200,
                       wrote |-> status = 200 /\ endpoint[3],
                       valid |-> /\ credentials # NoCredentials
                                 /\ credentials.signature = "server"
                                 /\ apiNow < credentials.exp
                                 /\ \E u \in dbUsers : /\ u.username = credentials.sub
                                                       /\ u.is_active]
       /\ UNCHANGED <<dbUsers, apiNow, reg>>
       /\ UNCHANGED notAuthVars

\* UserCreate bodies that pass validation
Registrations == [username : {"kris", "sam"}, email : {"k@ccr", "s@ccr"}]

RegIdle ==
    [pc |-> "idle", username |-> "none", email |-> "none", status |-> 0,
     known |-> FALSE, created |-> FALSE]

\* a slip: the e-mail is not looked up
register_checks_username_only(table, user_data) ==
    IF \E u \in table : u.username = user_data.username THEN 400 ELSE 0

\* register: the two look-ups; 400 if either finds a row, 0 to go on
register_checks(table, user_data) ==
    IF \E u \in table : u.username = user_data.username THEN 400
    ELSE IF \E u \in table : u.email = user_data.email THEN 400
    ELSE 0

\* register up to the User(...) object: `known` records whether the username
\* or the e-mail was registered when the request was handled, `created`
\* whether this registration has stored a user
RegisterCheck(w, user_data) ==
    LET status == register_checks(dbUsers, user_data)
    IN /\ reg[w].pc = "idle"
       /\ reg' = [reg EXCEPT ![w] =
                     [pc |-> IF status = 400 THEN "done" ELSE "commit",
                      username |-> user_data.username, email |-> user_data.email,
                      status |-> status,
                      known |-> \E u \in dbUsers : \/ u.username = user_data.username
                                                   \/ u.email = user_data.email,
                      created |-> FALSE]]
       /\ UNCHANGED <<dbUsers, apiNow, authLast>>
       /\ UNCHANGED notAuthVars

\* register: db.add(user); db.commit(). The INSERT fails on
\* username ... UNIQUE or email ... UNIQUE (IntegrityError, answered 500)
RegisterCommit(w) ==
    LET clash == \E u \in dbUsers : \/ u.username = reg[w].username
                                    \/ u.email = reg[w].email
    IN /\ reg[w].pc = "commit"
       /\ dbUsers' = IF clash THEN dbUsers
                     ELSE dbUsers \cup {[username |-> reg[w].username,
                                         email |-> reg[w].email, is_active |-> TRUE]}
       /\ reg' = [reg EXCEPT ![w].pc = "done",
                             ![w].status = IF clash THEN 500 ELSE 201,
                             ![w].created = ~clash]
       /\ UNCHANGED <<apiNow, authLast>>
       /\ UNCHANGED notAuthVars

AuthNext ==
    \/ ApiTick
    \/ \E endpoint \in ProtectedEndpoints \cup PublicEndpoints,
          credentials \in BearerTokens \cup {NoCredentials} :
          CallEndpoint(endpoint, credentials)

RegisterNext ==
    \/ \E w \in Workers, user_data \in Registrations : RegisterCheck(w, user_data)
    \/ \E w \in Workers : RegisterCommit(w)

-----------------------------------------------------------------------------
(* The manual library of the backend (app/api/v1/manuals.py): upload,      *)
(* list and web search over table equipment_manuals and the file storage.  *)
(* Manuals are told apart by manual_type; dbManuals counts the rows of     *)
(* each type. The caller is an authenticated user.                         *)

\* CHECK (manual_type IN (...)) of table equipment_manuals
StoredManualTypes ==
    {"service", "parts", "installation", "user", "wiring", "technical_bulletin"}

\* the manual types an upload can name
UploadedManualTypes == {"service", "technical_bulletin", "poster"}

\* uploads a client can send: a missing manufacturer stands for any missing
\* required form field, is_pdf for whether the content is a PDF document
UploadRequests ==
    [extension : {".pdf", ".PDF", ".txt"}, is_pdf : BOOLEAN,
     size_mb : {UploadLimitMb, UploadLimitMb + 1},
     manufacturer : {"TurboChef", "missing"},
     manual_type : UploadedManualTypes]

\* upload_manual: Form(...) validation, the file-name and size checks,
\* storage.save_file, get_pdf_info / extract_text_from_pdf (PyMuPDF raises
\* on a file that is no PDF), then the INSERT under the table's CHECK
upload_manual(upload) ==
    IF upload.manufacturer = "missing"
    THEN [status |-> 422, saved |-> FALSE, created |-> FALSE]
    ELSE IF upload.extension # ".pdf"
    THEN [status |-> 400, saved |-> FALSE, created |-> FALSE]
    ELSE IF upload.size_mb > UploadLimitMb
    THEN [status |-> 400, saved |-> FALSE, created |-> FALSE]
    ELSE IF ~upload.is_pdf
    THEN [status |-> 500, saved |-> TRUE, created |-> FALSE]
    ELSE IF upload.manual_type \notin StoredManualTypes
    THEN [status |-> 500, saved |-> TRUE, created |-> FALSE]
    ELSE [status |-> 201, saved |-> TRUE, created |-> TRUE]

\* storage.save_file(file.file, f"{manufacturer}_{model}_{manual_type}.pdf"):
\* the file written; with manufacturer and model fixed, the manual type
\* names it
save_file(upload) == upload.manual_type

\* POST /manuals/upload; the upload sets no pdf_version, and rows whose
\* pdf_version is NULL never collide under UNIQUE(manufacturer, model,
\* manual_type, pdf_version). `overwrote` records that the file written was
\* the file of an existing record
UploadManual(upload) ==
    LET outcome == upload_manual(upload)
    IN /\ uploads < MaxUploads
       /\ uploads' = uploads + 1
       /\ storedFiles' = IF outcome.saved THEN storedFiles \cup {save_file(upload)}
                         ELSE storedFiles
       /\ dbManuals' = IF outcome.created
                       THEN [dbManuals EXCEPT ![upload.manual_type] = @ + 1]
                       ELSE dbManuals
       /\ fileRecords' = IF outcome.created
                         THEN [fileRecords EXCEPT ![save_file(upload)] = @ + 1]
                         ELSE fileRecords
       /\ manLast' = [kind |-> "upload", request |-> upload, outcome |-> outcome,
                      overwrote |-> outcome.saved /\ fileRecords[save_file(upload)] > 0]
       /\ UNCHANGED notManualVars

\* limit: int = 50, unless the caller passes one
list_manuals_limit(given, limit) == IF given THEN limit ELSE DefaultLimit

\* GET /manuals?manual_type=...&limit=...&offset=...: how many rows
\* query.offset(offset).limit(limit).all() returns
ListManuals(manual_type, given, limit, offset) ==
    LET total == dbManuals[manual_type]
        effective == list_manuals_limit(given, limit)
        rest == IF total > offset THEN total - offset ELSE 0
    IN /\ manLast' = [kind |-> "list", given |-> given, total |-> total,
                      limit |-> effective,
                      returned |-> IF rest < effective THEN rest ELSE effective]
       /\ UNCHANGED <<dbManuals, storedFiles, fileRecords, uploads>>
       /\ UNCHANGED notManualVars

\* POST /manuals/search: web_found is the answer of search_manual_on_web
SearchManual(manual_type, web_found) ==
    LET existing == dbManuals[manual_type] > 0
    IN /\ manLast' = [kind |-> "search", manual_type |-> manual_type,
                      existed |-> existing,
                      web_found |-> ~existing /\ web_found,
                      found |-> existing \/ web_found,
                      already_in_library |-> existing]
       /\ UNCHANGED <<dbManuals, storedFiles, fileRecords, uploads>>
       /\ UNCHANGED notManualVars

ManualsNext ==
    \/ \E upload \in UploadRequests : UploadManual(upload)
    \/ \E manual_type \in {"service", "wiring"},
          given \in BOOLEAN, limit \in {1, MaxLimit, MaxLimit + 1}, offset \in {0, 1} :
          ListManuals(manual_type, given, limit, offset)
    \/ \E manual_type \in {"service", "wiring"}, web_found \in BOOLEAN :
          SearchManual(manual_type, web_found)

-----------------------------------------------------------------------------
(* Screens of the mobile client: TroubleshootScreen.handleTroubleshoot,    *)
(* ManualsScreen's loadManuals / handleSearch / handleUpload, and          *)
(* uploadManual of services/api.ts.                                        *)

\* what the form can hold when Get Help is pressed
TroubleshootForms ==
    [manufacturer : {<<>>, <<"a">>}, model : {<<" ">>, <<"a">>},
     errorCode : {<<>>, <<"a">>}, symptom : {<<" ">>, <<"a">>}]

NoTroubleshootQuery ==
    [manufacturer |-> <<>>, model |-> <<>>, errorCode |-> <<>>, symptom |-> <<>>]

NoResult == <<"null">>

TroubleshootIdle ==
    [pc |-> "idle", isLoading |-> FALSE, result |-> NoResult,
     query |-> NoTroubleshootQuery, answered |-> {}, known |-> FALSE,
     network |-> FALSE, last |-> "none"]

\* a slip: only the manufacturer is required
handleTroubleshoot_checks_manufacturer_only(form) ==
    strip(form.manufacturer) # <<>>

\* handleTroubleshoot: the two form checks before the request
handleTroubleshoot_checks(form) ==
    /\ ~(strip(form.manufacturer) = <<>> \/ strip(form.model) = <<>>)
    /\ ~(strip(form.errorCode) = <<>> /\ strip(form.symptom) = <<>>)

\* handleTroubleshoot up to `await troubleshoot(...)`: the two form checks
\* (Alert and return), setIsLoading(true), setResult(null), then the POST
\* /troubleshoot; the button is disabled while isLoading. `known` records
\* whether the app has received this query's answer before, `network` that
\* a request went out
HandleTroubleshoot(form) ==
    /\ tshoot.pc = "idle"
    /\ ~tshoot.isLoading
    /\ tshoot' = IF ~handleTroubleshoot_checks(form)
                 THEN [tshoot EXCEPT !.last = "alert_form"]
                 ELSE [tshoot EXCEPT !.pc = "waiting", !.isLoading = TRUE,
                                     !.result = NoResult, !.query = form,
                                     !.known = form \in tshoot.answered,
                                     !.network = TRUE, !.last = "sent"]
    /\ UNCHANGED <<mscreen, lib>>
    /\ UNCHANGED notScreenVars

\* handleTroubleshoot after the await: setResult(response.data.troubleshooting)
\* and finally setIsLoading(false)
TroubleshootResponds ==
    /\ tshoot.pc = "waiting"
    /\ tshoot' = [tshoot EXCEPT !.pc = "idle", !.isLoading = FALSE,
                                !.result = <<"steps", tshoot.query>>,
                                !.answered = @ \cup {tshoot.query},
                                !.last = "answered"]
    /\ UNCHANGED <<mscreen, lib>>
    /\ UNCHANGED notScreenVars

\* handleTroubleshoot, catch: no network or an error status; Alert, and
\* finally setIsLoading(false)
TroubleshootFails ==
    /\ tshoot.pc = "waiting"
    /\ tshoot' = [tshoot EXCEPT !.pc = "idle", !.isLoading = FALSE,
                                !.last = "alert_failed"]
    /\ UNCHANGED <<mscreen, lib>>
    /\ UNCHANGED notScreenVars

\* arguments handleUpload and other callers give uploadManual
UploadArguments ==
    [file : {"manual.pdf"}, manufacturer : {"TurboChef"}, model : {"NGCD6"},
     manualType : {"service", "parts"}, pdfVersion : {"undefined", "Rev E"},
     serialRange : {"All", "2020-2023"}]

\* uploadManual: the fields appended to the FormData (void pdfVersion;
\* void serialRange)
uploadManual_formData(a) ==
    {<<"file", a.file>>, <<"brand", a.manufacturer>>, <<"model", a.model>>,
     <<"equipment_type", a.manualType>>}

ManualsScreenIdle ==
    [isLoading |-> FALSE, manuals |-> 0, started |-> 0, inflight |-> {},
     latest |-> "none", uploadArgs |-> "none", formData |-> {}]

\* loadManuals / handleSearch up to `await getManuals(...)`:
\* setIsLoading(true) and the request; requests are numbered as they start
StartGetManuals(kind) ==
    /\ mscreen.started < MaxScreenLoads
    /\ mscreen' = [mscreen EXCEPT !.isLoading = TRUE, !.started = @ + 1,
                                  !.inflight = @ \cup {<<kind, mscreen.started + 1>>},
                                  !.latest = "waiting"]
    /\ UNCHANGED <<tshoot, lib>>
    /\ UNCHANGED notScreenVars

\* the request answers: setManuals(response.data.manuals), and finally
\* setIsLoading(false); `manuals` holds the number of the request shown
GetManualsResponds(request) ==
    /\ request \in mscreen.inflight
    /\ mscreen' = [mscreen EXCEPT !.manuals = request[2], !.isLoading = FALSE,
                                  !.inflight = @ \ {request},
                                  !.latest = IF request[2] = mscreen.started
                                             THEN "shown" ELSE @]
    /\ UNCHANGED <<tshoot, lib>>
    /\ UNCHANGED notScreenVars

\* the request fails: console.error, and finally setIsLoading(false)
GetManualsFails(request) ==
    /\ request \in mscreen.inflight
    /\ mscreen' = [mscreen EXCEPT !.isLoading = FALSE, !.inflight = @ \ {request},
                                  !.latest = IF request[2] = mscreen.started
                                             THEN "failed" ELSE @]
    /\ UNCHANGED <<tshoot, lib>>
    /\ UNCHANGED notScreenVars

\* a caller sends an upload through uploadManual
SendUpload(a) ==
    /\ mscreen' = [mscreen EXCEPT !.uploadArgs = a,
                                  !.formData = uploadManual_formData(a)]
    /\ UNCHANGED <<tshoot, lib>>
    /\ UNCHANGED notScreenVars

TroubleshootNext ==
    \/ \E form \in TroubleshootForms : HandleTroubleshoot(form)
    \/ TroubleshootResponds
    \/ TroubleshootFails

ScreensNext ==
    \/ \E kind \in {"load", "search"} : StartGetManuals(kind)
    \/ \E kind \in {"load", "search"}, n \in 1..MaxScreenLoads :
          GetManualsResponds(<<kind, n>>)
    \/ \E kind \in {"load", "search"}, n \in 1..MaxScreenLoads :
          GetManualsFails(<<kind, n>>)
    \/ \E a \in UploadArguments : SendUpload(a)

-----------------------------------------------------------------------------
(* ManualLibraryScreen: the list of manuals, loadManuals and the polling   *)
(* effect keyed on hasPending. React runs an effect's cleanup and body     *)
(* after the render that changed its dependency, and the cleanup after an  *)
(* unmount; `effectFor` is the hasPending value the effect last ran with.  *)

LibraryIdle ==
    [mounted |-> FALSE, manuals |-> {}, timers |-> 0, effectFor |-> "none",
     inflight |-> 0, loading |-> TRUE]

\* lists GET /manuals can answer with, as the indexing_status values in them
\* ("undefined" for a manual that carries none)
LibraryLists ==
    {{}, {"complete"}, {"undefined"}, {"pending"}, {"pending", "complete"},
     {"failed", "complete"}}

\* a slip: every manual that is not complete counts as pending
hasPending_unless_complete(manuals) ==
    \E status \in manuals : status # "complete"

\* hasPending: manuals.some(m => (m.indexing_status || 'pending') === 'pending')
hasPending(manuals) ==
    \E status \in manuals :
       (IF status \in {"undefined", ""} THEN "pending" ELSE status) = "pending"

\* a slip: the effect returns no cleanup
polling_effect_without_cleanup(ranFor, pendingNow, timers) ==
    IF pendingNow = "true" THEN timers + 1 ELSE timers

\* the polling effect at a change of its dependency: the cleanup of the run
\* before (clearInterval) if that run set a timer, then the body
\* (setInterval unless !hasPending); "none" is the unmounted screen
polling_effect(ranFor, pendingNow, timers) ==
    LET cleared == IF ranFor = "true" THEN timers - 1 ELSE timers
    IN IF pendingNow = "true" THEN cleared + 1 ELSE cleared

\* the dependency value of the current render
LibraryDeps ==
    IF ~lib.mounted THEN "none" ELSE IF hasPending(lib.manuals) THEN "true" ELSE "false"

\* the screen mounts: useState([]), first render, loadManuals() from the
\* mount effect
LibraryMount ==
    /\ ~lib.mounted
    /\ lib.effectFor = "none"
    /\ lib.inflight < MaxLibraryLoads
    /\ lib' = [lib EXCEPT !.mounted = TRUE, !.manuals = {}, !.inflight = @ + 1,
                          !.loading = TRUE]
    /\ UNCHANGED <<tshoot, mscreen>>
    /\ UNCHANGED notScreenVars

\* React runs the polling effect for the render whose hasPending differs
\* from the one it last ran with, or its cleanup after the unmount
LibraryRunEffect ==
    /\ lib.effectFor # LibraryDeps
    /\ lib' = [lib EXCEPT !.timers = polling_effect(lib.effectFor, LibraryDeps, @),
                          !.effectFor = LibraryDeps]
    /\ UNCHANGED <<tshoot, mscreen>>
    /\ UNCHANGED notScreenVars

\* loadManuals is called: by the interval timer, or after an upload or a
\* delete on the mounted screen
LibraryLoadManuals(source) ==
    /\ IF source = "timer" THEN lib.timers > 0 ELSE lib.mounted
    /\ lib.inflight < MaxLibraryLoads
    /\ lib' = [lib EXCEPT !.inflight = @ + 1]
    /\ UNCHANGED <<tshoot, mscreen>>
    /\ UNCHANGED notScreenVars

\* loadManuals after the await: setManuals(response?.data?.manuals || []) and
\* setLoading(false), both of which an unmounted screen ignores
LibraryLoadResponds(list) ==
    /\ lib.inflight > 0
    /\ lib' = [lib EXCEPT !.inflight = @ - 1,
                          !.manuals = IF lib.mounted THEN list ELSE @,
                          !.loading = IF lib.mounted THEN FALSE ELSE @]
    /\ UNCHANGED <<tshoot, mscreen>>
    /\ UNCHANGED notScreenVars

\* loadManuals, catch and finally: Alert, the list stays, setLoading(false)
LibraryLoadFails ==
    /\ lib.inflight > 0
    /\ lib' = [lib EXCEPT !.inflight = @ - 1,
                          !.loading = IF lib.mounted THEN FALSE ELSE @]
    /\ UNCHANGED <<tshoot, mscreen>>
    /\ UNCHANGED notScreenVars

\* onBack: the screen unmounts
LibraryUnmount ==
    /\ lib.mounted
    /\ lib' = [lib EXCEPT !.mounted = FALSE]
    /\ UNCHANGED <<tshoot, mscreen>>
    /\ UNCHANGED notScreenVars

LibraryNext ==
    \/ LibraryMount
    \/ LibraryRunEffect
    \/ \E source \in {"timer", "upload", "delete"} : LibraryLoadManuals(source)
    \/ \E list \in LibraryLists : LibraryLoadResponds(list)
    \/ LibraryLoadFails
    \/ LibraryUnmount

\* the server's list changes: a manual is uploaded, indexing finishes or
\* fails, a manual is deleted
LibraryServerChanges(list) ==
    /\ list # libServer
    /\ libServer' = list
    /\ UNCHANGED <<libDelete>>
    /\ UNCHANGED notServerVars

\* GET /manuals answers with the list the server holds
LibraryServerResponds ==
    LibraryLoadResponds(libServer)

LibraryLiveNext ==
    \/ LibraryMount
    \/ LibraryRunEffect
    \/ \E source \in {"timer", "upload", "delete"} : LibraryLoadManuals(source)
    \/ LibraryServerResponds
    \/ LibraryLoadFails
    \/ LibraryUnmount
    \/ \E list \in LibraryLists : LibraryServerChanges(list)

-----------------------------------------------------------------------------
(* ManualLibraryScreen.confirmDelete: the confirmation dialog, DELETE       *)
(* /manuals/{id} through deleteManual, and the reload after it.             *)

LibraryDeleteIdle ==
    [dialog |-> "closed", opened |-> 0, pressed |-> "none", requests |-> 0,
     deleting |-> 0, reloads |-> 0, alert |-> "none", last |-> "none"]

\* a slip: both buttons of the dialog carry the onPress that deletes
confirmDelete_onPress_any_button(button) == TRUE

\* the buttons of the dialog: only Delete has an onPress
confirmDelete_onPress(button) == button = "Delete"

\* what no step of the delete handling touches
notLibraryDeleteVars ==
    <<tshoot, mscreen, hashVars, cacheVars, appVars, authVars, manualVars, clientVars,
      searchVars>>

\* confirmDelete(manual): the trash button of a listed manual opens the dialog
LibraryConfirmDelete(manual) ==
    /\ lib.mounted
    /\ manual \in lib.manuals
    /\ libDelete.dialog = "closed"
    /\ libDelete.opened < MaxDeleteDialogs
    /\ libDelete' = [libDelete EXCEPT !.dialog = manual, !.opened = @ + 1]
    /\ UNCHANGED <<lib, libServer>>
    /\ UNCHANGED notLibraryDeleteVars

\* the user presses a button of the dialog: Cancel closes it, Delete runs
\* the onPress up to `await deleteManual(manual.id)`
LibraryDialogPress(button) ==
    /\ libDelete.dialog # "closed"
    /\ libDelete' =
          IF confirmDelete_onPress(button)
          THEN [libDelete EXCEPT !.dialog = "closed", !.pressed = button,
                                 !.requests = @ + 1, !.deleting = @ + 1, !.last = "sent"]
          ELSE [libDelete EXCEPT !.dialog = "closed", !.pressed = button,
                                 !.last = "closed"]
    /\ UNCHANGED <<lib, libServer>>
    /\ UNCHANGED notLibraryDeleteVars

\* the DELETE is answered 2xx: `await loadManuals()` starts a reload
LibraryDeleteSucceeds ==
    /\ libDelete.deleting > 0
    /\ lib.inflight < MaxLibraryLoads
    /\ libDelete' = [libDelete EXCEPT !.deleting = @ - 1, !.reloads = @ + 1,
                                     !.last = "deleted"]
    /\ lib' = [lib EXCEPT !.inflight = @ + 1]
    /\ UNCHANGED <<libServer>>
    /\ UNCHANGED notLibraryDeleteVars

\* the DELETE fails: handleResponse throws, the catch alerts
LibraryDeleteFails ==
    /\ libDelete.deleting > 0
    /\ libDelete' = [libDelete EXCEPT !.deleting = @ - 1, !.alert = "Delete Failed",
                                     !.last = "failed"]
    /\ UNCHANGED <<lib, libServer>>
    /\ UNCHANGED notLibraryDeleteVars

LibraryDeleteNext ==
    \/ LibraryMount
    \/ LibraryRunEffect
    \/ \E source \in {"timer", "upload"} : LibraryLoadManuals(source)
    \/ \E list \in LibraryLists : LibraryLoadResponds(list)
    \/ LibraryLoadFails
    \/ LibraryUnmount
    \/ \E manual \in {"pending", "complete", "failed", "undefined"} :
          LibraryConfirmDelete(manual)
    \/ \E button \in {"Cancel", "Delete"} : LibraryDialogPress(button)
    \/ LibraryDeleteSucceeds
    \/ LibraryDeleteFails

-----------------------------------------------------------------------------
(* RAGQueryScreen: the loaded manuals, the brand / model selection, the     *)
(* selection effect and handleSubmit. Brands and models are numbered in    *)
(* their sort order; 0 is the empty string.                                *)

\* lists GET /manuals can answer with, as <<brand || manufacturer, model>>
RagLists ==
    { <<>>,
      << <<1, 1>> >>,
      << <<2, 2>>, <<1, 1>>, <<1, 3>> >>,
      << <<1, 3>> >>,
      << <<0, 1>>, <<2, 0>> >> }

\* the question field: empty, blank, a question with blanks around it
RagQuestions == {<<>>, <<" ">>, <<" ", "a">>}

RagNotSent == [question |-> <<>>, model |-> 0, brand |-> 0, effectsRun |-> FALSE,
               listed |-> FALSE]

RagIdle ==
    [manuals |-> <<>>, loadingManuals |-> TRUE, inflight |-> 0,
     selectedBrand |-> 0, selectedModel |-> 0, question |-> <<>>,
     effectPending |-> TRUE, error |-> "", submitting |-> FALSE, sent |-> RagNotSent]

\* brandOptions: the non-empty brands of the list (sorted, duplicates removed)
brandOptions(manuals) ==
    {manuals[i][1] : i \in DOMAIN manuals} \ {0}

\* modelOptions: the non-empty models of the manuals of the selected brand
modelOptions(manuals, selectedBrand) ==
    IF selectedBrand = 0 THEN {}
    ELSE {manuals[i][2] : i \in {j \in DOMAIN manuals : manuals[j][1] = selectedBrand}} \ {0}

\* options[0] || '' of a sorted option list
FirstOption(options) ==
    IF options = {} THEN 0 ELSE CHOOSE x \in options : \A y \in options : x <= y

\* a slip: the effect picks a brand and never touches the model
selection_effect_keeps_model(manuals, selectedBrand, selectedModel) ==
    IF selectedBrand = 0 /\ brandOptions(manuals) # {}
    THEN [selectedBrand |-> FirstOption(brandOptions(manuals)), selectedModel |-> selectedModel]
    ELSE [selectedBrand |-> selectedBrand, selectedModel |-> selectedModel]

\* the selection effect: the state it leaves
selection_effect(manuals, selectedBrand, selectedModel) ==
    IF selectedBrand = 0 /\ brandOptions(manuals) # {}
    THEN [selectedBrand |-> FirstOption(brandOptions(manuals)), selectedModel |-> selectedModel]
    ELSE IF selectedModel # 0 /\ selectedModel \in modelOptions(manuals, selectedBrand)
    THEN [selectedBrand |-> selectedBrand, selectedModel |-> selectedModel]
    ELSE [selectedBrand |-> selectedBrand,
          selectedModel |-> FirstOption(modelOptions(manuals, selectedBrand))]

\* a render after a state change: the effect is due again when one of its
\* dependencies (brandOptions, modelOptions, selectedBrand, selectedModel)
\* has changed
RagRender(next) ==
    [next EXCEPT !.effectPending =
        \/ @
        \/ <<next.manuals, next.selectedBrand, next.selectedModel>>
              # <<rag.manuals, rag.selectedBrand, rag.selectedModel>>]

\* React has run the selection effect for the current render
RagEffectsRun == ~rag.effectPending

\* loadManuals up to `await getManuals()`: on mount and on the refresh button
RagLoadManuals ==
    /\ rag.inflight < MaxRagLoads
    /\ rag' = [rag EXCEPT !.loadingManuals = TRUE, !.error = "", !.inflight = @ + 1]
    /\ UNCHANGED <<loginScr>>
    /\ UNCHANGED notClientVars

\* loadManuals after the await: setManuals(list), and for a non-empty list
\* setSelectedBrand(prev => prev || firstBrand); finally
RagLoadResponds(list) ==
    /\ rag.inflight > 0
    /\ rag' = RagRender(
                  [rag EXCEPT !.manuals = list,
                              !.selectedBrand = IF list # <<>> /\ @ = 0 THEN list[1][1] ELSE @,
                              !.loadingManuals = FALSE, !.inflight = @ - 1])
    /\ UNCHANGED <<loginScr>>
    /\ UNCHANGED notClientVars

\* loadManuals, catch and finally
RagLoadFails ==
    /\ rag.inflight > 0
    /\ rag' = [rag EXCEPT !.error = "Failed to load manuals",
                          !.loadingManuals = FALSE, !.inflight = @ - 1]
    /\ UNCHANGED <<loginScr>>
    /\ UNCHANGED notClientVars

\* React runs the selection effect for the render whose dependencies changed
RagRunEffect ==
    /\ ~RagEffectsRun
    /\ LET after == selection_effect(rag.manuals, rag.selectedBrand, rag.selectedModel)
       IN rag' = RagRender(
                    [rag EXCEPT !.effectPending = FALSE,
                                !.selectedBrand = after.selectedBrand,
                                !.selectedModel = after.selectedModel])
    /\ UNCHANGED <<loginScr>>
    /\ UNCHANGED notClientVars

\* the user picks a brand in the selector, which lists brandOptions
RagSelectBrand(brand) ==
    /\ brand \in brandOptions(rag.manuals)
    /\ rag' = RagRender([rag EXCEPT !.selectedBrand = brand])
    /\ UNCHANGED <<loginScr>>
    /\ UNCHANGED notClientVars

\* the user picks a model in the selector, which lists modelOptions
RagSelectModel(model) ==
    /\ model \in modelOptions(rag.manuals, rag.selectedBrand)
    /\ rag' = RagRender([rag EXCEPT !.selectedModel = model])
    /\ UNCHANGED <<loginScr>>
    /\ UNCHANGED notClientVars

\* the user edits the question
RagSetQuestion(question) ==
    /\ rag.question # question
    /\ rag' = [rag EXCEPT !.question = question]
    /\ UNCHANGED <<loginScr>>
    /\ UNCHANGED notClientVars

\* handleSubmit up to `await queryRAG(...)`: the early return, or the request
RagHandleSubmit ==
    /\ ~rag.submitting
    /\ IF rag.selectedBrand = 0 \/ rag.selectedModel = 0 \/ strip(rag.question) = <<>>
       THEN rag' = [rag EXCEPT !.error = "Select brand/model and enter a question."]
       ELSE rag' = [rag EXCEPT
                       !.submitting = TRUE, !.error = "",
                       !.sent = [question |-> strip(rag.question),
                                 model |-> rag.selectedModel, brand |-> rag.selectedBrand,
                                 effectsRun |-> RagEffectsRun,
                                 listed |-> \E i \in DOMAIN rag.manuals :
                                               rag.manuals[i] = <<rag.selectedBrand,
                                                                  rag.selectedModel>>]]
    /\ UNCHANGED <<loginScr>>
    /\ UNCHANGED notClientVars

\* handleSubmit after the await: result or error, finally setSubmitting(false)
RagQueryEnds(ok) ==
    /\ rag.submitting
    /\ rag' = [rag EXCEPT !.submitting = FALSE,
                          !.error = IF ok THEN @ ELSE "Failed to run RAG query"]
    /\ UNCHANGED <<loginScr>>
    /\ UNCHANGED notClientVars

RagNext ==
    \/ RagLoadManuals
    \/ \E list \in RagLists : RagLoadResponds(list)
    \/ RagLoadFails
    \/ RagRunEffect
    \/ \E brand \in {1, 2} : RagSelectBrand(brand)
    \/ \E model \in {1, 2, 3} : RagSelectModel(model)
    \/ \E question \in RagQuestions : RagSetQuestion(question)
    \/ RagHandleSubmit
    \/ \E ok \in BOOLEAN : RagQueryEnds(ok)

-----------------------------------------------------------------------------
(* LoginScreen.handleLogin with AuthContext.login and the login function of *)
(* the API wrapper. services/api.ts exists in two versions, the fetch-based *)
(* one (handleResponse) and the axios one; the screen is the same.          *)

ApiWrappers == {"fetch", "axios"}

\* what the username and password fields can hold
LoginFields == {<<>>, <<" ">>, <<"a">>}

\* answers to POST /auth/login: the token, the two HTTPExceptions of the
\* route, an error without a JSON detail, and no answer at all (status 0)
LoginReplies ==
    {[status |-> 200, detail |-> ""],
     [status |-> 401, detail |-> "Incorrect username or password"],
     [status |-> 403, detail |-> "User account is inactive"],
     [status |-> 502, detail |-> ""],
     [status |-> 0, detail |-> ""]}

NoReply == [status |-> 0 - 1, detail |-> ""]

LoginIdle ==
    [wrapper |-> "fetch", username |-> <<>>, password |-> <<>>, pc |-> "idle",
     isLoading |-> FALSE, presses |-> 0, blankPresses |-> 0, requests |-> 0,
     sentUsername |-> <<>>, sentPassword |-> <<>>, reply |-> NoReply,
     alert |-> "none", last |-> "none", onLoginSuccess |-> 0, accepted |-> 0]

\* a slip: only the username is required
handleLogin_checks_username_only(username, password) ==
    strip(username) # <<>>

\* handleLogin: if (!username.trim() || !password.trim()) return
handleLogin_checks(username, password) ==
    ~(strip(username) = <<>> \/ strip(password) = <<>>)

\* error.response?.data?.detail as handleLogin's catch sees it: the axios
\* error carries the response; handleResponse of the fetch wrapper throws
\* new Error(errorData.detail || `HTTP error ...`), which has no `response`
error_response_detail(wrapper, reply) ==
    IF wrapper = "axios" /\ reply.status # 0 THEN reply.detail ELSE ""

\* handleLogin, catch: error.response?.data?.detail || 'Invalid credentials'
handleLogin_alert(wrapper, reply) ==
    IF error_response_detail(wrapper, reply) # ""
    THEN error_response_detail(wrapper, reply)
    ELSE "Invalid credentials"

\* the user edits the form
LoginSetFields(username, password) ==
    /\ <<username, password>> # <<loginScr.username, loginScr.password>>
    /\ loginScr' = [loginScr EXCEPT !.username = username, !.password = password]
    /\ UNCHANGED <<rag>>
    /\ UNCHANGED notClientVars

\* handleLogin up to `await login(username, password)`, which sends POST
\* /auth/login once; the button is disabled while isLoading
HandleLogin ==
    /\ ~loginScr.isLoading
    /\ loginScr.presses < MaxLoginPresses
    /\ loginScr' =
          IF ~handleLogin_checks(loginScr.username, loginScr.password)
          THEN [loginScr EXCEPT !.presses = @ + 1, !.blankPresses = @ + 1,
                                !.alert = "Please enter username and password",
                                !.last = "blank"]
          ELSE [loginScr EXCEPT !.presses = @ + 1, !.requests = @ + 1,
                                !.sentUsername = loginScr.username,
                                !.sentPassword = loginScr.password,
                                !.isLoading = TRUE, !.pc = "waiting", !.last = "sent"]
    /\ UNCHANGED <<rag>>
    /\ UNCHANGED notClientVars

\* the request ends: on 200 login stores the token, AuthContext sets the
\* user and handleLogin calls onLoginSuccess(); otherwise the catch alerts;
\* finally setIsLoading(false)
LoginReplyArrives(reply) ==
    /\ loginScr.pc = "waiting"
    /\ loginScr' =
          IF reply.status = 200
          THEN [loginScr EXCEPT !.pc = "idle", !.reply = reply, !.isLoading = FALSE,
                                !.accepted = @ + 1, !.onLoginSuccess = @ + 1,
                                !.last = "success"]
          ELSE [loginScr EXCEPT !.pc = "idle", !.reply = reply, !.isLoading = FALSE,
                                !.alert = handleLogin_alert(loginScr.wrapper, reply),
                                !.last = "failed"]
    /\ UNCHANGED <<rag>>
    /\ UNCHANGED notClientVars

LoginNext ==
    \/ \E username \in LoginFields, password \in LoginFields :
          LoginSetFields(username, password)
    \/ HandleLogin
    \/ \E reply \in LoginReplies : LoginReplyArrives(reply)

-----------------------------------------------------------------------------
(* ManualsScreen.handleWebSearch with searchManual of the fetch-based API   *)
(* wrapper.                                                                 *)

\* what the manufacturer and model fields of the search form can hold
WebSearchFields == {<<>>, <<" ">>, <<"a">>}

WebSearchIdle ==
    [webManufacturer |-> <<>>, webModel |-> <<>>, pc |-> "idle",
     isSearchingWeb |-> FALSE, endpoint |-> "none", listed |-> 0 - 1,
     alert |-> "none", reloads |-> 0, searches |-> 0]

\* a slip: a manual that is listed is reported as found on the web and
\* downloaded
searchManual_reports_download(listed) ==
    [found |-> listed > 0, already_in_library |-> FALSE, auto_downloaded |-> listed > 0,
     download_error |-> "null"]

\* searchManual: the data built from the listing getManuals returned
searchManual(listed) ==
    [found |-> listed > 0, already_in_library |-> listed > 0, auto_downloaded |-> FALSE,
     download_error |-> "null"]

\* handleWebSearch: the alert chosen from response.data
handleWebSearch_alert(data) ==
    IF data.already_in_library THEN "Already Have It!"
    ELSE IF data.auto_downloaded THEN "Manual Found & Saved!"
    ELSE IF data.found THEN "Manual Found Online"
    ELSE "Not Found"

\* the user edits the search form
WebSearchSetFields(manufacturer, model) ==
    /\ <<manufacturer, model>> # <<wsearch.webManufacturer, wsearch.webModel>>
    /\ wsearch' = [wsearch EXCEPT !.webManufacturer = manufacturer, !.webModel = model]
    /\ UNCHANGED notSearchVars

\* handleWebSearch up to `await searchManual(...)`, which awaits
\* getManuals(manufacturer, model): GET /manuals?brand=...&model=...
HandleWebSearch ==
    /\ wsearch.pc = "idle"
    /\ wsearch.searches < MaxWebSearches
    /\ wsearch' =
          IF strip(wsearch.webManufacturer) = <<>> \/ strip(wsearch.webModel) = <<>>
          THEN [wsearch EXCEPT !.alert = "Error: Please enter manufacturer and model",
                               !.endpoint = "none", !.listed = 0 - 1,
                               !.searches = @ + 1]
          ELSE [wsearch EXCEPT !.pc = "waiting", !.isSearchingWeb = TRUE,
                               !.endpoint = "GET /manuals", !.listed = 0 - 1,
                               !.alert = "none", !.searches = @ + 1]
    /\ UNCHANGED notSearchVars

\* getManuals answers with `listed` manuals: searchManual builds its data,
\* handleWebSearch alerts, calls loadManuals() when the manual is in the
\* library, and finally setIsSearchingWeb(false)
WebSearchListingArrives(listed) ==
    /\ wsearch.pc = "waiting"
    /\ LET data == searchManual(listed)
       IN wsearch' = [wsearch EXCEPT
                         !.pc = "idle", !.isSearchingWeb = FALSE, !.listed = listed,
                         !.alert = handleWebSearch_alert(data),
                         !.reloads = IF data.already_in_library THEN (@ + 1) % 2 ELSE @]
    /\ UNCHANGED notSearchVars

\* getManuals throws (no network, an error status): the catch alerts
WebSearchListingFails ==
    /\ wsearch.pc = "waiting"
    /\ wsearch' = [wsearch EXCEPT !.pc = "idle", !.isSearchingWeb = FALSE,
                                  !.alert = "Error: Search failed"]
    /\ UNCHANGED notSearchVars

WebSearchNext ==
    \/ \E manufacturer \in WebSearchFields, model \in WebSearchFields :
          WebSearchSetFields(manufacturer, model)
    \/ HandleWebSearch
    \/ \E listed \in {0, 1, 2} : WebSearchListingArrives(listed)
    \/ WebSearchListingFails

-----------------------------------------------------------------------------
(* Specifications: one per part of the system; the other parts stay at rest *)

HashNext == ComputeHashes

\* two arbitrary queries, nothing hashed yet
HashSpecInit ==
    /\ hq1 \in HashQueries
    /\ hq2 \in HashQueries
    /\ hk1 = None
    /\ hk2 = None
    /\ now = 0
    /\ cache = {}
    /\ wpc = [w \in Workers |-> "idle"]
    /\ wreq = [w \in Workers |-> IdleRequest]
    /\ hits = [h \in CacheHashes |-> 0]
    /\ lastSave = [h \in CacheHashes |-> NoSave]
    /\ served = 0
    /\ secureStore = NoToken
    /\ user = NoUser
    /\ isLoading = TRUE
    /\ navScreen = "home"
    /\ authPc = "get_token"
    /\ loginPc = "idle"
    /\ logoutPc = "idle"
    /\ pending = NoPending
    /\ lastRequest = NoRequest
    /\ session = NewSession
    /\ dbUsers = {}
    /\ apiNow = 0
    /\ reg = [w \in Workers |-> RegIdle]
    /\ authLast = NoCall
    /\ dbManuals = [t \in StoredManualTypes |-> 0]
    /\ storedFiles = {}
    /\ fileRecords = [t \in UploadedManualTypes |-> 0]
    /\ uploads = 0
    /\ manLast = [kind |-> "none"]
    /\ tshoot = TroubleshootIdle
    /\ mscreen = ManualsScreenIdle
    /\ lib = LibraryIdle
    /\ wsearch = WebSearchIdle
    /\ rag = RagIdle
    /\ loginScr = LoginIdle
    /\ libServer = {}
    /\ libDelete = LibraryDeleteIdle

\* an empty cache table, idle workers
CacheSpecInit ==
    /\ hq1 = NoQuery
    /\ hq2 = NoQuery
    /\ hk1 = None
    /\ hk2 = None
    /\ now = 0
    /\ cache = {}
    /\ wpc = [w \in Workers |-> "idle"]
    /\ wreq = [w \in Workers |-> IdleRequest]
    /\ hits = [h \in CacheHashes |-> 0]
    /\ lastSave = [h \in CacheHashes |-> NoSave]
    /\ served = 0
    /\ secureStore = NoToken
    /\ user = NoUser
    /\ isLoading = TRUE
    /\ navScreen = "home"
    /\ authPc = "get_token"
    /\ loginPc = "idle"
    /\ logoutPc = "idle"
    /\ pending = NoPending
    /\ lastRequest = NoRequest
    /\ session = NewSession
    /\ dbUsers = {}
    /\ apiNow = 0
    /\ reg = [w \in Workers |-> RegIdle]
    /\ authLast = NoCall
    /\ dbManuals = [t \in StoredManualTypes |-> 0]
    /\ storedFiles = {}
    /\ fileRecords = [t \in UploadedManualTypes |-> 0]
    /\ uploads = 0
    /\ manLast = [kind |-> "none"]
    /\ tshoot = TroubleshootIdle
    /\ mscreen = ManualsScreenIdle
    /\ lib = LibraryIdle
    /\ wsearch = WebSearchIdle
    /\ rag = RagIdle
    /\ loginScr = LoginIdle
    /\ libServer = {}
    /\ libDelete = LibraryDeleteIdle

\* the app starts: useState(null), useState(true), { screen: 'home' }, with or
\* without a token left in secure storage by an earlier run
AppSpecInit ==
    /\ hq1 = NoQuery
    /\ hq2 = NoQuery
    /\ hk1 = None
    /\ hk2 = None
    /\ now = 0
    /\ cache = {}
    /\ wpc = [w \in Workers |-> "idle"]
    /\ wreq = [w \in Workers |-> IdleRequest]
    /\ hits = [h \in CacheHashes |-> 0]
    /\ lastSave = [h \in CacheHashes |-> NoSave]
    /\ served = 0
    /\ secureStore \in {NoToken} \cup Tokens
    /\ user = NoUser
    /\ isLoading = TRUE
    /\ navScreen = "home"
    /\ authPc = "get_token"
    /\ loginPc = "idle"
    /\ logoutPc = "idle"
    /\ pending = NoPending
    /\ lastRequest = NoRequest
    /\ session = NewSession
    /\ dbUsers = {}
    /\ apiNow = 0
    /\ reg = [w \in Workers |-> RegIdle]
    /\ authLast = NoCall
    /\ dbManuals = [t \in StoredManualTypes |-> 0]
    /\ storedFiles = {}
    /\ fileRecords = [t \in UploadedManualTypes |-> 0]
    /\ uploads = 0
    /\ manLast = [kind |-> "none"]
    /\ tshoot = TroubleshootIdle
    /\ mscreen = ManualsScreenIdle
    /\ lib = LibraryIdle
    /\ wsearch = WebSearchIdle
    /\ rag = RagIdle
    /\ loginScr = LoginIdle
    /\ libServer = {}
    /\ libDelete = LibraryDeleteIdle

\* the users table as found: empty, or holding an active or a deactivated kris
AuthSpecInit ==
    /\ hq1 = NoQuery
    /\ hq2 = NoQuery
    /\ hk1 = None
    /\ hk2 = None
    /\ now = 0
    /\ cache = {}
    /\ wpc = [w \in Workers |-> "idle"]
    /\ wreq = [w \in Workers |-> IdleRequest]
    /\ hits = [h \in CacheHashes |-> 0]
    /\ lastSave = [h \in CacheHashes |-> NoSave]
    /\ served = 0
    /\ secureStore = NoToken
    /\ user = NoUser
    /\ isLoading = TRUE
    /\ navScreen = "home"
    /\ authPc = "get_token"
    /\ loginPc = "idle"
    /\ logoutPc = "idle"
    /\ pending = NoPending
    /\ lastRequest = NoRequest
    /\ session = NewSession
    /\ dbUsers \in {{}} \cup {{[username |-> "kris", email |-> "k@ccr", is_active |-> a]} : a \in BOOLEAN}
    /\ apiNow = 0
    /\ reg = [w \in Workers |-> RegIdle]
    /\ authLast = NoCall
    /\ dbManuals = [t \in StoredManualTypes |-> 0]
    /\ storedFiles = {}
    /\ fileRecords = [t \in UploadedManualTypes |-> 0]
    /\ uploads = 0
    /\ manLast = [kind |-> "none"]
    /\ tshoot = TroubleshootIdle
    /\ mscreen = ManualsScreenIdle
    /\ lib = LibraryIdle
    /\ wsearch = WebSearchIdle
    /\ rag = RagIdle
    /\ loginScr = LoginIdle
    /\ libServer = {}
    /\ libDelete = LibraryDeleteIdle

\* registrations arrive at a users table that is empty or holds kris
RegisterSpecInit ==
    /\ hq1 = NoQuery
    /\ hq2 = NoQuery
    /\ hk1 = None
    /\ hk2 = None
    /\ now = 0
    /\ cache = {}
    /\ wpc = [w \in Workers |-> "idle"]
    /\ wreq = [w \in Workers |-> IdleRequest]
    /\ hits = [h \in CacheHashes |-> 0]
    /\ lastSave = [h \in CacheHashes |-> NoSave]
    /\ served = 0
    /\ secureStore = NoToken
    /\ user = NoUser
    /\ isLoading = TRUE
    /\ navScreen = "home"
    /\ authPc = "get_token"
    /\ loginPc = "idle"
    /\ logoutPc = "idle"
    /\ pending = NoPending
    /\ lastRequest = NoRequest
    /\ session = NewSession
    /\ dbUsers \in {{}, {[username |-> "kris", email |-> "k@ccr", is_active |-> TRUE]}}
    /\ apiNow = 0
    /\ reg = [w \in Workers |-> RegIdle]
    /\ authLast = NoCall
    /\ dbManuals = [t \in StoredManualTypes |-> 0]
    /\ storedFiles = {}
    /\ fileRecords = [t \in UploadedManualTypes |-> 0]
    /\ uploads = 0
    /\ manLast = [kind |-> "none"]
    /\ tshoot = TroubleshootIdle
    /\ mscreen = ManualsScreenIdle
    /\ lib = LibraryIdle
    /\ wsearch = WebSearchIdle
    /\ rag = RagIdle
    /\ loginScr = LoginIdle
    /\ libServer = {}
    /\ libDelete = LibraryDeleteIdle

\* a new library, or one that already holds service manuals
ManualsSpecInit ==
    /\ hq1 = NoQuery
    /\ hq2 = NoQuery
    /\ hk1 = None
    /\ hk2 = None
    /\ now = 0
    /\ cache = {}
    /\ wpc = [w \in Workers |-> "idle"]
    /\ wreq = [w \in Workers |-> IdleRequest]
    /\ hits = [h \in CacheHashes |-> 0]
    /\ lastSave = [h \in CacheHashes |-> NoSave]
    /\ served = 0
    /\ secureStore = NoToken
    /\ user = NoUser
    /\ isLoading = TRUE
    /\ navScreen = "home"
    /\ authPc = "get_token"
    /\ loginPc = "idle"
    /\ logoutPc = "idle"
    /\ pending = NoPending
    /\ lastRequest = NoRequest
    /\ session = NewSession
    /\ dbUsers = {}
    /\ apiNow = 0
    /\ reg = [w \in Workers |-> RegIdle]
    /\ authLast = NoCall
    /\ dbManuals \in {[t \in StoredManualTypes |-> IF t = "service" THEN n ELSE 0] : n \in {0, SeededManuals}}
    /\ storedFiles = {}
    /\ fileRecords = [t \in UploadedManualTypes |-> 0]
    /\ uploads = 0
    /\ manLast = [kind |-> "none"]
    /\ tshoot = TroubleshootIdle
    /\ mscreen = ManualsScreenIdle
    /\ lib = LibraryIdle
    /\ wsearch = WebSearchIdle
    /\ rag = RagIdle
    /\ loginScr = LoginIdle
    /\ libServer = {}
    /\ libDelete = LibraryDeleteIdle

\* the screens as mounted
ScreensSpecInit ==
    /\ hq1 = NoQuery
    /\ hq2 = NoQuery
    /\ hk1 = None
    /\ hk2 = None
    /\ now = 0
    /\ cache = {}
    /\ wpc = [w \in Workers |-> "idle"]
    /\ wreq = [w \in Workers |-> IdleRequest]
    /\ hits = [h \in CacheHashes |-> 0]
    /\ lastSave = [h \in CacheHashes |-> NoSave]
    /\ served = 0
    /\ secureStore = NoToken
    /\ user = NoUser
    /\ isLoading = TRUE
    /\ navScreen = "home"
    /\ authPc = "get_token"
    /\ loginPc = "idle"
    /\ logoutPc = "idle"
    /\ pending = NoPending
    /\ lastRequest = NoRequest
    /\ session = NewSession
    /\ dbUsers = {}
    /\ apiNow = 0
    /\ reg = [w \in Workers |-> RegIdle]
    /\ authLast = NoCall
    /\ dbManuals = [t \in StoredManualTypes |-> 0]
    /\ storedFiles = {}
    /\ fileRecords = [t \in UploadedManualTypes |-> 0]
    /\ uploads = 0
    /\ manLast = [kind |-> "none"]
    /\ tshoot = TroubleshootIdle
    /\ mscreen = ManualsScreenIdle
    /\ lib = LibraryIdle
    /\ wsearch = WebSearchIdle
    /\ rag = RagIdle
    /\ loginScr = LoginIdle
    /\ libServer = {}
    /\ libDelete = LibraryDeleteIdle

\* the library screen before it is opened
LibrarySpecInit ==
    /\ hq1 = NoQuery
    /\ hq2 = NoQuery
    /\ hk1 = None
    /\ hk2 = None
    /\ now = 0
    /\ cache = {}
    /\ wpc = [w \in Workers |-> "idle"]
    /\ wreq = [w \in Workers |-> IdleRequest]
    /\ hits = [h \in CacheHashes |-> 0]
    /\ lastSave = [h \in CacheHashes |-> NoSave]
    /\ served = 0
    /\ secureStore = NoToken
    /\ user = NoUser
    /\ isLoading = TRUE
    /\ navScreen = "home"
    /\ authPc = "get_token"
    /\ loginPc = "idle"
    /\ logoutPc = "idle"
    /\ pending = NoPending
    /\ lastRequest = NoRequest
    /\ session = NewSession
    /\ dbUsers = {}
    /\ apiNow = 0
    /\ reg = [w \in Workers |-> RegIdle]
    /\ authLast = NoCall
    /\ dbManuals = [t \in StoredManualTypes |-> 0]
    /\ storedFiles = {}
    /\ fileRecords = [t \in UploadedManualTypes |-> 0]
    /\ uploads = 0
    /\ manLast = [kind |-> "none"]
    /\ tshoot = TroubleshootIdle
    /\ mscreen = ManualsScreenIdle
    /\ lib = LibraryIdle
    /\ wsearch = WebSearchIdle
    /\ rag = RagIdle
    /\ loginScr = LoginIdle
    /\ libServer = {}
    /\ libDelete = LibraryDeleteIdle

\* the library screen before it is opened, the server listing nothing
LibraryLiveSpecInit ==
    /\ hq1 = NoQuery
    /\ hq2 = NoQuery
    /\ hk1 = None
    /\ hk2 = None
    /\ now = 0
    /\ cache = {}
    /\ wpc = [w \in Workers |-> "idle"]
    /\ wreq = [w \in Workers |-> IdleRequest]
    /\ hits = [h \in CacheHashes |-> 0]
    /\ lastSave = [h \in CacheHashes |-> NoSave]
    /\ served = 0
    /\ secureStore = NoToken
    /\ user = NoUser
    /\ isLoading = TRUE
    /\ navScreen = "home"
    /\ authPc = "get_token"
    /\ loginPc = "idle"
    /\ logoutPc = "idle"
    /\ pending = NoPending
    /\ lastRequest = NoRequest
    /\ session = NewSession
    /\ dbUsers = {}
    /\ apiNow = 0
    /\ reg = [w \in Workers |-> RegIdle]
    /\ authLast = NoCall
    /\ dbManuals = [t \in StoredManualTypes |-> 0]
    /\ storedFiles = {}
    /\ fileRecords = [t \in UploadedManualTypes |-> 0]
    /\ uploads = 0
    /\ manLast = [kind |-> "none"]
    /\ tshoot = TroubleshootIdle
    /\ mscreen = ManualsScreenIdle
    /\ lib = LibraryIdle
    /\ wsearch = WebSearchIdle
    /\ rag = RagIdle
    /\ loginScr = LoginIdle
    /\ libServer = {}
    /\ libDelete = LibraryDeleteIdle

\* the RAG query screen as constructed
RagSpecInit ==
    /\ hq1 = NoQuery
    /\ hq2 = NoQuery
    /\ hk1 = None
    /\ hk2 = None
    /\ now = 0
    /\ cache = {}
    /\ wpc = [w \in Workers |-> "idle"]
    /\ wreq = [w \in Workers |-> IdleRequest]
    /\ hits = [h \in CacheHashes |-> 0]
    /\ lastSave = [h \in CacheHashes |-> NoSave]
    /\ served = 0
    /\ secureStore = NoToken
    /\ user = NoUser
    /\ isLoading = TRUE
    /\ navScreen = "home"
    /\ authPc = "get_token"
    /\ loginPc = "idle"
    /\ logoutPc = "idle"
    /\ pending = NoPending
    /\ lastRequest = NoRequest
    /\ session = NewSession
    /\ dbUsers = {}
    /\ apiNow = 0
    /\ reg = [w \in Workers |-> RegIdle]
    /\ authLast = NoCall
    /\ dbManuals = [t \in StoredManualTypes |-> 0]
    /\ storedFiles = {}
    /\ fileRecords = [t \in UploadedManualTypes |-> 0]
    /\ uploads = 0
    /\ manLast = [kind |-> "none"]
    /\ tshoot = TroubleshootIdle
    /\ mscreen = ManualsScreenIdle
    /\ lib = LibraryIdle
    /\ wsearch = WebSearchIdle
    /\ rag = RagIdle
    /\ loginScr = LoginIdle
    /\ libServer = {}
    /\ libDelete = LibraryDeleteIdle

\* the troubleshoot screen as mounted
TroubleshootSpecInit ==
    /\ hq1 = NoQuery
    /\ hq2 = NoQuery
    /\ hk1 = None
    /\ hk2 = None
    /\ now = 0
    /\ cache = {}
    /\ wpc = [w \in Workers |-> "idle"]
    /\ wreq = [w \in Workers |-> IdleRequest]
    /\ hits = [h \in CacheHashes |-> 0]
    /\ lastSave = [h \in CacheHashes |-> NoSave]
    /\ served = 0
    /\ secureStore = NoToken
    /\ user = NoUser
    /\ isLoading = TRUE
    /\ navScreen = "home"
    /\ authPc = "get_token"
    /\ loginPc = "idle"
    /\ logoutPc = "idle"
    /\ pending = NoPending
    /\ lastRequest = NoRequest
    /\ session = NewSession
    /\ dbUsers = {}
    /\ apiNow = 0
    /\ reg = [w \in Workers |-> RegIdle]
    /\ authLast = NoCall
    /\ dbManuals = [t \in StoredManualTypes |-> 0]
    /\ storedFiles = {}
    /\ fileRecords = [t \in UploadedManualTypes |-> 0]
    /\ uploads = 0
    /\ manLast = [kind |-> "none"]
    /\ tshoot = TroubleshootIdle
    /\ mscreen = ManualsScreenIdle
    /\ lib = LibraryIdle
    /\ wsearch = WebSearchIdle
    /\ rag = RagIdle
    /\ loginScr = LoginIdle
    /\ libServer = {}
    /\ libDelete = LibraryDeleteIdle

\* the login screen as constructed, with either version of the API wrapper
LoginSpecInit ==
    /\ hq1 = NoQuery
    /\ hq2 = NoQuery
    /\ hk1 = None
    /\ hk2 = None
    /\ now = 0
    /\ cache = {}
    /\ wpc = [w \in Workers |-> "idle"]
    /\ wreq = [w \in Workers |-> IdleRequest]
    /\ hits = [h \in CacheHashes |-> 0]
    /\ lastSave = [h \in CacheHashes |-> NoSave]
    /\ served = 0
    /\ secureStore = NoToken
    /\ user = NoUser
    /\ isLoading = TRUE
    /\ navScreen = "home"
    /\ authPc = "get_token"
    /\ loginPc = "idle"
    /\ logoutPc = "idle"
    /\ pending = NoPending
    /\ lastRequest = NoRequest
    /\ session = NewSession
    /\ dbUsers = {}
    /\ apiNow = 0
    /\ reg = [w \in Workers |-> RegIdle]
    /\ authLast = NoCall
    /\ dbManuals = [t \in StoredManualTypes |-> 0]
    /\ storedFiles = {}
    /\ fileRecords = [t \in UploadedManualTypes |-> 0]
    /\ uploads = 0
    /\ manLast = [kind |-> "none"]
    /\ tshoot = TroubleshootIdle
    /\ mscreen = ManualsScreenIdle
    /\ lib = LibraryIdle
    /\ wsearch = WebSearchIdle
    /\ rag = RagIdle
    /\ loginScr \in {[LoginIdle EXCEPT !.wrapper = w] : w \in ApiWrappers}
    /\ libServer = {}
    /\ libDelete = LibraryDeleteIdle

\* the library screen before it is opened, no dialog
LibraryDeleteSpecInit ==
    /\ hq1 = NoQuery
    /\ hq2 = NoQuery
    /\ hk1 = None
    /\ hk2 = None
    /\ now = 0
    /\ cache = {}
    /\ wpc = [w \in Workers |-> "idle"]
    /\ wreq = [w \in Workers |-> IdleRequest]
    /\ hits = [h \in CacheHashes |-> 0]
    /\ lastSave = [h \in CacheHashes |-> NoSave]
    /\ served = 0
    /\ secureStore = NoToken
    /\ user = NoUser
    /\ isLoading = TRUE
    /\ navScreen = "home"
    /\ authPc = "get_token"
    /\ loginPc = "idle"
    /\ logoutPc = "idle"
    /\ pending = NoPending
    /\ lastRequest = NoRequest
    /\ session = NewSession
    /\ dbUsers = {}
    /\ apiNow = 0
    /\ reg = [w \in Workers |-> RegIdle]
    /\ authLast = NoCall
    /\ dbManuals = [t \in StoredManualTypes |-> 0]
    /\ storedFiles = {}
    /\ fileRecords = [t \in UploadedManualTypes |-> 0]
    /\ uploads = 0
    /\ manLast = [kind |-> "none"]
    /\ tshoot = TroubleshootIdle
    /\ mscreen = ManualsScreenIdle
    /\ lib = LibraryIdle
    /\ wsearch = WebSearchIdle
    /\ rag = RagIdle
    /\ loginScr = LoginIdle
    /\ libServer = {}
    /\ libDelete = LibraryDeleteIdle

\* the Manuals screen with an empty search form
WebSearchSpecInit ==
    /\ hq1 = NoQuery
    /\ hq2 = NoQuery
    /\ hk1 = None
    /\ hk2 = None
    /\ now = 0
    /\ cache = {}
    /\ wpc = [w \in Workers |-> "idle"]
    /\ wreq = [w \in Workers |-> IdleRequest]
    /\ hits = [h \in CacheHashes |-> 0]
    /\ lastSave = [h \in CacheHashes |-> NoSave]
    /\ served = 0
    /\ secureStore = NoToken
    /\ user = NoUser
    /\ isLoading = TRUE
    /\ navScreen = "home"
    /\ authPc = "get_token"
    /\ loginPc = "idle"
    /\ logoutPc = "idle"
    /\ pending = NoPending
    /\ lastRequest = NoRequest
    /\ session = NewSession
    /\ dbUsers = {}
    /\ apiNow = 0
    /\ reg = [w \in Workers |-> RegIdle]
    /\ authLast = NoCall
    /\ dbManuals = [t \in StoredManualTypes |-> 0]
    /\ storedFiles = {}
    /\ fileRecords = [t \in UploadedManualTypes |-> 0]
    /\ uploads = 0
    /\ manLast = [kind |-> "none"]
    /\ tshoot = TroubleshootIdle
    /\ mscreen = ManualsScreenIdle
    /\ lib = LibraryIdle
    /\ wsearch = WebSearchIdle
    /\ rag = RagIdle
    /\ loginScr = LoginIdle
    /\ libServer = {}
    /\ libDelete = LibraryDeleteIdle

SpecHash == HashSpecInit /\ [][HashNext]_vars

SpecCache == CacheSpecInit /\ [][CacheNext]_vars

SpecApp == AppSpecInit /\ [][AppNext]_vars

SpecAuth == AuthSpecInit /\ [][AuthNext]_vars

SpecRegister == RegisterSpecInit /\ [][RegisterNext]_vars

SpecManuals == ManualsSpecInit /\ [][ManualsNext]_vars

SpecScreens == ScreensSpecInit /\ [][ScreensNext]_vars

SpecLibrary == LibrarySpecInit /\ [][LibraryNext]_vars

\* React runs a pending effect, the interval timer fires while it exists, and
\* a reload that is tried again and again gets an answer at some point
LibraryFairness ==
    /\ WF_vars(LibraryRunEffect)
    /\ WF_vars(LibraryLoadManuals("timer"))
    /\ SF_vars(LibraryServerResponds)

SpecLibraryLive == LibraryLiveSpecInit /\ [][LibraryLiveNext]_vars /\ LibraryFairness

SpecRag == RagSpecInit /\ [][RagNext]_vars

SpecTroubleshoot == TroubleshootSpecInit /\ [][TroubleshootNext]_vars

SpecLogin == LoginSpecInit /\ [][LoginNext]_vars

SpecLibraryDelete == LibraryDeleteSpecInit /\ [][LibraryDeleteNext]_vars

SpecWebSearch == WebSearchSpecInit /\ [][WebSearchNext]_vars

-----------------------------------------------------------------------------
(* Claims about the backend cache *)

LookedUp(w) == wreq[w].checkedAt >= 0

\* C1: check_cache reports a hit only when a row with the query's hash exists
\* whose expires_at is later than the time of the lookup; every row expires
\* 30 days after its creation, so no hit is reported 30 days or more after
\* the row was created; a query with no stored row is a miss.
C1_HitOnlyFromLiveRow ==
    /\ \A r \in cache : r.expires_at = r.created_at + CacheTtlDays
    /\ \A w \in Workers :
          LookedUp(w) =>
             /\ wreq[w].found =>
                   /\ wreq[w].rowLive
                   /\ wreq[w].selected.query_hash = QueryHash(wreq[w].q)
                   /\ wreq[w].checkedAt < wreq[w].selected.created_at + CacheTtlDays
             /\ ~wreq[w].rowStored => ~wreq[w].found

\* a lookup that finds the query's row stored but expired, and reports a miss
C1_Witness ==
    \E w \in Workers : LookedUp(w) /\ wreq[w].rowStored /\ ~wreq[w].found

\* C2: after save_to_cache has stored response R for a query, the next
\* check_cache for that query made less than 30 days after the save reports
\* found with response R, whatever the table held before the save.
C2_SaveThenHit ==
    \A w \in Workers :
       (LookedUp(w) /\ wreq[w].expected # Nothing) =>
          /\ wreq[w].found
          /\ wreq[w].selected.response_data = wreq[w].expected

\* C3: the endpoint looks in the cache first, calls the AI model only after a
\* miss, and after a miss always calls the AI model, saves its response and
\* returns it.
C3_MissCallsAISavesReturns ==
    \A w \in Workers :
       /\ wreq[w].calledAI => (LookedUp(w) /\ ~wreq[w].found)
       /\ wreq[w].saved => wreq[w].calledAI
       /\ (wpc[w] \in {"done", "failed"} /\ ~wreq[w].found) =>
             /\ wreq[w].calledAI
             /\ wreq[w].saved
             /\ wreq[w].returned = wreq[w].response

\* the normal form the claim gives: trimmed and lower-cased, the error code
\* trimmed and upper-cased, a missing error code or symptom empty
ClaimNormalForm(q) ==
    [manufacturer |-> lower(strip(q.manufacturer)),
     model        |-> lower(strip(q.model)),
     error_code   |-> IF q.error_code = None THEN <<>> ELSE upper(strip(q.error_code)),
     symptom      |-> IF q.symptom = None THEN <<>> ELSE lower(strip(q.symptom))]

\* C4: two queries get the same hash exactly when their normal forms are
\* equal: equal normal forms share a cache key, different ones never do.
C4_SameHashIffSameNormalForm ==
    hk1 # None => ((hk1 = hk2) <=> (ClaimNormalForm(hq1) = ClaimNormalForm(hq2)))

\* two queries typed differently in every field that got the same hash
C4_Witness ==
    /\ hk1 # None
    /\ hk1 = hk2
    /\ hq1.manufacturer # hq2.manufacturer
    /\ hq1.model # hq2.model
    /\ hq1.error_code # hq2.error_code

\* C5: times_served of an entry is 1 plus the number of cache hits served
\* from it, after any sequence of requests, overlapping ones included.
C5_TimesServedCountsHits ==
    \A r \in cache : r.times_served = InitialTimesServed + hits[r.query_hash]

\* C6: only a successfully generated AI response is stored in the cache and
\* served from it; a failed AI call leaves nothing in the cache.
C6_OnlySuccessfulResponsesCached ==
    /\ \A r \in cache : r.response_data # ErrorObject
    /\ \A w \in Workers : wreq[w].found => wreq[w].returned # ErrorObject

-----------------------------------------------------------------------------
(* Claims about the mobile client *)

C8_UnauthenticatedSeesOnlyLogin ==
    ~isAuthenticated =>
       /\ Rendered \in {"login", "loading"}
       /\ Rendered = "loading" => authPc # "done"

\* not authenticated after start-up while navState points at another screen
C8_Witness ==
    /\ ~isAuthenticated
    /\ authPc = "done"
    /\ navScreen = "troubleshoot"
    /\ Rendered = "login"

\* the steps of checkAuth
CheckAuthStep ==
    \/ CheckAuthGetToken
    \/ CheckAuthCallMe
    \/ SendRequest
    \/ CheckAuthMeSucceeds
    \/ CheckAuthMeFails
    \/ CheckAuthCatch
    \/ CheckAuthFinally

\* C9: the start-up check is never stuck before its end and ends with
\* isLoading false; without a login the user is authenticated exactly when a
\* token was stored and the current-user request succeeded; when the check
\* failed the stored token has been deleted and the user is not authenticated.
C9_StartupCheck ==
    /\ authPc = "done" => ~isLoading
    /\ authPc # "done" => (isLoading /\ ENABLED CheckAuthStep)
    /\ (authPc = "done" /\ ~session.loggedIn /\ ~session.everLoggedOut) =>
          (isAuthenticated <=> (session.startToken # NoToken /\ session.me = "ok"))
    /\ (~session.loggedIn /\ isAuthenticated) =>
          (session.startToken # NoToken /\ session.me = "ok")
    /\ (authPc = "done" /\ ~session.loggedIn /\ session.me = "failed") =>
          (secureStore = NoToken /\ ~isAuthenticated)

\* the check has failed with a token stored at start-up
C9_Witness ==
    /\ authPc = "done"
    /\ session.startToken # NoToken
    /\ session.me = "failed"
    /\ secureStore = NoToken
    /\ ~isLoading

\* C10: once logout has completed, and until a login succeeds, the stored
\* token is gone, user is null, the login screen is shown and no request
\* sent carries a token.
C10_AfterLogout ==
    /\ session.loggedOut =>
          /\ secureStore = NoToken
          /\ user = NoUser
          /\ Rendered = "login"
    /\ (lastRequest # NoRequest /\ lastRequest.afterLogout) =>
          lastRequest.headers.Authorization = NoHeader

-----------------------------------------------------------------------------
(* Claims about the backend's routes *)

C12_UploadValidation ==
    manLast.kind = "upload" =>
       /\ manLast.outcome.status = 201 =>
             /\ manLast.request.is_pdf
             /\ manLast.request.size_mb <= UploadLimitMb
             /\ manLast.request.manufacturer # "missing"
             /\ manLast.request.manual_type \in
                   {"service", "parts", "installation", "user", "wiring"}
       /\ manLast.outcome.status # 201 =>
             (~manLast.outcome.saved /\ ~manLast.outcome.created)

\* C13: when POST /manuals/search is asked for a manual that is not in the
\* library and the web search finds it, the manual is added to the library
\* (a following search reports already_in_library); when the web search
\* finds nothing the library is unchanged.
C13_FoundManualJoinsLibrary ==
    (manLast.kind = "search" /\ ~manLast.existed) =>
       (manLast.web_found <=> dbManuals[manLast.manual_type] > 0)

\* C14: GET /manuals returns at most `limit` manuals, where limit is 50 by
\* default and never more than 100 whatever the caller passes.
C14_ListLimit ==
    manLast.kind = "list" =>
       /\ manLast.returned <= manLast.limit
       /\ ~manLast.given => manLast.limit = DefaultLimit
       /\ manLast.limit <= MaxLimit
       /\ manLast.returned <= MaxLimit

-----------------------------------------------------------------------------
(* Claims about the screens of the mobile client *)

\* C16: a troubleshooting query whose response the app has already received
\* is answered from the app's own cache, without a network request.
C16_KnownQueryAnsweredLocally ==
    (tshoot.query # NoTroubleshootQuery /\ tshoot.known) =>
       (~tshoot.network /\ tshoot.result = <<"steps", tshoot.query>>)

\* C17: every upload sent through uploadManual carries the form fields the
\* documented POST /manuals/upload requires (file, manufacturer, model,
\* manual_type) and passes on the caller's pdf_version and serial_range.
C17_UploadFormMatchesApi ==
    mscreen.formData # {} =>
       /\ {"file", "manufacturer", "model", "manual_type"} \subseteq
             {f[1] : f \in mscreen.formData}
       /\ <<"manufacturer", mscreen.uploadArgs.manufacturer>> \in mscreen.formData
       /\ <<"manual_type", mscreen.uploadArgs.manualType>> \in mscreen.formData
       /\ mscreen.uploadArgs.pdfVersion # "undefined" =>
             <<"pdf_version", mscreen.uploadArgs.pdfVersion>> \in mscreen.formData
       /\ <<"serial_range", mscreen.uploadArgs.serialRange>> \in mscreen.formData

\* C20: on the Manuals screen, when a list load and a search overlap, the
\* list finally displayed is the result of the request started last, and
\* isLoading stays true until every outstanding request has finished.
C20_LastStartedRequestWins ==
    /\ mscreen.inflight # {} => mscreen.isLoading
    /\ (mscreen.inflight = {} /\ mscreen.latest = "shown") =>
          mscreen.manuals = mscreen.started

\* C18: on the manual library screen the 6-second reload timer runs exactly
\* while a listed manual is pending (one without indexing_status counts as
\* pending): once React has run the effect for the current list, a timer
\* exists if and only if the screen is mounted and a listed manual is
\* pending; after the unmount's cleanup none exists; and there is never more
\* than one.
C18_OnePollingTimerWhilePending ==
    /\ lib.timers \in {0, 1}
    /\ lib.effectFor = LibraryDeps =>
          (lib.timers = 1 <=> (lib.mounted /\ hasPending(lib.manuals)))
    /\ hasPending({"undefined"}) /\ ~hasPending({"failed", "complete"})

\* the timer has been cleared because a reload showed no manual pending,
\* while the reload it started last is still in flight
C18_Witness ==
    /\ lib.mounted
    /\ lib.manuals = {"complete"}
    /\ lib.effectFor = "false"
    /\ lib.timers = 0
    /\ lib.inflight > 0

\* C19: whenever the app considers the user authenticated (user is
\* non-null), an access token is present in secure storage, in every state
\* reachable through the start-up check, login and logout, the states
\* between their asynchronous steps included.
C19_AuthenticatedHasToken ==
    isAuthenticated => secureStore # NoToken

-----------------------------------------------------------------------------
(* Claims about the cache table, the library screen's polling and the      *)
(* remaining screens *)

\* C21: save_to_cache never creates a second row for a query hash: the table
\* holds at most one row per query hash in every state; the lookup of
\* save_to_cache finds the row whenever one is stored; and a save that found
\* a row overwrites that row's response data and adds no row.
C21_OneRowPerQueryHash ==
    /\ [](\A r1, r2 \in cache : r1.query_hash = r2.query_hash => r1 = r2)
    /\ [][\A w \in Workers :
            /\ (wpc[w] = "save_select" /\ wpc'[w] = "save_commit") =>
                  (wreq'[w].existing <=>
                      \E r \in cache : r.query_hash = QueryHash(wreq[w].q))
            /\ (wpc[w] = "save_commit" /\ wreq[w].existing /\ wpc'[w] = "done") =>
                  /\ Cardinality(cache') = Cardinality(cache)
                  /\ \E r \in cache' : /\ r.query_hash = QueryHash(wreq[w].q)
                                       /\ r.response_data = wreq[w].response
         ]_vars

\* a save has overwritten the row of a query that was stored before with
\* another response
C21_Witness ==
    \E w \in Workers :
       /\ wpc[w] = "done"
       /\ wreq[w].saved /\ wreq[w].existing
       /\ wreq[w].response = "steps_v2"
       /\ \E r \in cache : /\ r.query_hash = QueryHash(wreq[w].q)
                           /\ r.response_data = "steps_v2"
                           /\ r.created_at < now

\* C22: if the server eventually reports every manual as complete or failed,
\* polling on the manual library screen eventually stops (no timer is left),
\* even when reloads fail in between.
C22_PollingStops ==
    <>[](libServer \subseteq {"complete", "failed"}) => <>[](lib.timers = 0)

\* the screen polls for a manual it shows as pending, the server has
\* finished with every manual, and a reload is on its way
C22_Witness ==
    /\ lib.mounted
    /\ hasPending(lib.manuals)
    /\ lib.timers = 1
    /\ lib.inflight > 0
    /\ libServer = {"failed", "complete"}

C24_TroubleshootRequestLifecycle ==
    /\ tshoot.query # NoTroubleshootQuery =>
          /\ strip(tshoot.query.manufacturer) # <<>>
          /\ strip(tshoot.query.model) # <<>>
          /\ strip(tshoot.query.errorCode) # <<>> \/ strip(tshoot.query.symptom) # <<>>
    /\ tshoot.last = "alert_form" => tshoot.pc = "idle"
    /\ tshoot.pc = "waiting" => (tshoot.result = NoResult /\ tshoot.isLoading)
    /\ tshoot.last = "alert_failed" => tshoot.result = NoResult
    /\ tshoot.pc = "idle" => ~tshoot.isLoading

\* a second query has failed after a first one was answered: the first
\* answer is no longer displayed
C24_Witness ==
    /\ tshoot.last = "alert_failed"
    /\ tshoot.answered # {}
    /\ tshoot.result = NoResult
    /\ ~tshoot.isLoading

\* C25: handleLogin sends no login request when the username or the password
\* is blank after trimming and exactly one otherwise; onLoginSuccess is
\* called only after that request has succeeded; a failed request shows an
\* alert; and either way handleLogin ends with isLoading false.
C25_HandleLoginLifecycle ==
    /\ loginScr.requests = loginScr.presses - loginScr.blankPresses
    /\ loginScr.requests > 0 =>
          (strip(loginScr.sentUsername) # <<>> /\ strip(loginScr.sentPassword) # <<>>)
    /\ loginScr.last = "blank" => (loginScr.pc = "idle" /\ ~loginScr.isLoading)
    /\ loginScr.onLoginSuccess = loginScr.accepted
    /\ loginScr.last = "success" => loginScr.reply.status = 200
    /\ loginScr.last = "failed" =>
          (loginScr.alert \notin {"none", "Please enter username and password"}
              /\ loginScr.reply.status # 200)
    /\ loginScr.pc = "idle" => ~loginScr.isLoading
    /\ loginScr.pc = "waiting" => loginScr.isLoading

\* a blank press, then a rejected login, then an accepted one
C25_Witness ==
    /\ loginScr.blankPresses = 1
    /\ loginScr.requests = 2
    /\ loginScr.alert = "Invalid credentials"
    /\ loginScr.onLoginSuccess = 1
    /\ loginScr.last = "success"
    /\ ~loginScr.isLoading

\* C30: when the server rejects a login, the alert of the login screen shows
\* the detail message the server supplied when there is one, and 'Invalid
\* credentials' only when the server supplied none.
C30_AlertShowsServerDetail ==
    (loginScr.last = "failed" /\ loginScr.reply.status # 0) =>
       loginScr.alert = IF loginScr.reply.detail # "" THEN loginScr.reply.detail
                        ELSE "Invalid credentials"

\* C26: on the manual library screen a DELETE request goes out only when the
\* user presses Delete in the confirmation dialog, and Cancel sends none;
\* a successful delete starts a reload of the list; a failed delete shows
\* an alert and leaves the displayed list as it is.
C26_DeleteOnlyAfterConfirmation ==
    /\ [](libDelete.requests <= libDelete.opened)
    /\ [][/\ libDelete'.requests # libDelete.requests =>
                (libDelete.dialog # "closed" /\ libDelete'.pressed = "Delete"
                    /\ libDelete'.requests = libDelete.requests + 1)
          /\ (libDelete.dialog # "closed" /\ libDelete'.dialog = "closed"
                 /\ libDelete'.pressed = "Cancel") =>
                (libDelete'.requests = libDelete.requests
                    /\ libDelete'.deleting = libDelete.deleting)
          /\ libDelete'.reloads # libDelete.reloads =>
                lib'.inflight = lib.inflight + 1
          /\ (libDelete'.deleting < libDelete.deleting
                 /\ libDelete'.reloads = libDelete.reloads) =>
                (libDelete'.alert = "Delete Failed" /\ lib' = lib)
         ]_vars

\* one dialog was cancelled, one delete has failed, and the list still shows
\* the manual
C26_Witness ==
    /\ libDelete.opened = 2
    /\ libDelete.requests = 1
    /\ libDelete.last = "failed"
    /\ libDelete.alert = "Delete Failed"
    /\ lib.manuals # {}

\* C27: distinct manual records never share a stored file: no stored file is
\* the file_path of two records, and no upload writes over the file an
\* existing record points to.
C27_NoSharedStoredFile ==
    /\ \A t \in UploadedManualTypes : fileRecords[t] <= 1
    /\ manLast.kind = "upload" => ~manLast.overwrote

\* C28: in the navigation switch Back from Troubleshoot or Manuals leads to
\* Home and Back from the Manual Viewer leads to Manuals (and nowhere else),
\* so two Back presses reach Home from every screen; the targets without a
\* screen of their own, equipment and history, render Home.
C28_BackLeadsHome ==
    /\ Rendered \in {"troubleshoot", "manuals"} =>
          /\ ENABLED (NavigateBack /\ Rendered' = "home")
          /\ ~ENABLED (NavigateBack /\ Rendered' # "home")
    /\ Rendered = "manual-viewer" =>
          /\ ENABLED (NavigateBack /\ Rendered' = "manuals")
          /\ ~ENABLED (NavigateBack /\ Rendered' # "manuals")
    /\ onBack(onBack("manual-viewer")) = "home"
    /\ (isAuthenticated /\ ~isLoading /\ navScreen \in {"equipment", "history"}) =>
          Rendered = "home"

\* the Manual Viewer is open
C28_Witness ==
    /\ Rendered = "manual-viewer"
    /\ navScreen = "manual-viewer"
    /\ isAuthenticated

\* C29: searchManual of the fetch-based wrapper contacts no search endpoint,
\* only the library listing; it reports found exactly when that listing is
\* non-empty, already_in_library equal to found and auto_downloaded false;
\* so a web search on the Manuals screen that gets its listing ends in
\* 'Already Have It!' or 'Not Found', and no search ever ends in the
\* auto-download or the found-online alert.
C29_WebSearchOnlyListsLibrary ==
    /\ wsearch.endpoint \in {"none", "GET /manuals"}
    /\ \A listed \in {0, 1, 2} :
          /\ searchManual(listed).found = (listed > 0)
          /\ searchManual(listed).already_in_library = searchManual(listed).found
          /\ ~searchManual(listed).auto_downloaded
    /\ wsearch.listed = 0 => wsearch.alert = "Not Found"
    /\ wsearch.listed > 0 => wsearch.alert = "Already Have It!"
    /\ wsearch.alert \notin {"Manual Found & Saved!", "Manual Found Online"}

\* a search for a manual the library does not list has ended in Not Found,
\* after one that ended in Already Have It!
C29_Witness ==
    /\ wsearch.alert = "Not Found"
    /\ wsearch.listed = 0
    /\ wsearch.reloads = 1
    /\ wsearch.pc = "idle"

====
